---- MODULE Spec2Model ----
(***************************************************************************)
(* Docling GUI: the batch-conversion orchestrator of src/docling_gui.py    *)
(* (interactive thread, one worker thread per run, the Tk event queue      *)
(* between them) and the helpers of src/conversion_utils.py it calls.      *)
(*                                                                         *)
(* Threads.  The interactive thread runs the button handlers and the       *)
(* callbacks posted with root.after(0, ...); the worker thread runs        *)
(* conversion_worker.  A tk.Button whose state is DISABLED does not invoke *)
(* its command, so a click is modelled as an action that does nothing      *)
(* when the button is disabled and runs the handler otherwise.             *)
(*                                                                         *)
(* Worker steps.  The worker is cut at the places where it touches state   *)
(* shared with the interactive thread or blocks in the external engine:    *)
(*   begin      lines 568-588  configuration log, build_converter          *)
(*   check      lines 590-597  loop header, read of cancel_requested       *)
(*   converting lines 599-645  converter.convert (blocking), export,      *)
(*                             write, counters, progress                   *)
(*   finally    line  657      is_converting = False                       *)
(*   post       line  658      root.after(0, conversion_finished)          *)
(***************************************************************************)
EXTENDS Integers, Sequences, FiniteSets, TLC

\* ------------------------------------------------------------------ bounds
\* Cap on the length of file_list (the GUI itself has none).
MaxFiles == 2
\* datetime.now() is drawn from 1..MaxClock (seconds).
MaxClock == 1
\* The user clicks Cancel again only when fewer than MaxPending of the
\* "Cancelling..." callbacks posted by earlier clicks are still waiting.
MaxPending == 1
\* At most MaxEdited option variables differ from their initial value at a
\* time when every option widget is in use.
MaxEdited == 1
\* A document's markdown is made of at most MaxPieces pieces.
MaxPieces == 3

\* ------------------------------------------------------------------ inputs
\* Paths the user can offer: [dir, stem, ext]; basename is stem ++ ext.
PathNames == << "a", "b", "c", "d" >>
PathOf(n) == [dir |-> "in", stem |-> PathNames[n], ext |-> ".pdf"]

\* What the file dialog of add_files returns: the first MaxFiles paths.
FileBatches == { [n \in 1..MaxFiles |-> PathOf(n)] }

\* Paths with other extensions: an upper-case spelling of a supported one and
\* an unsupported one.
PathExt(n, ext) == [dir |-> "in", stem |-> PathNames[n], ext |-> ext]

\* Answers of the file dialog of add_files when the user picks freely: one
\* file, the same file twice, a mixed pick.
DialogAnswers ==
    { << PathExt(1, ".pdf") >>,
      << PathExt(1, ".pdf"), PathExt(1, ".pdf") >>,
      << PathExt(2, ".PDF"), PathExt(3, ".txt") >>,
      << PathExt(3, ".docx"), PathExt(2, ".PDF") >> }

\* What os.walk yields for the folders the user can pick or drop.
FolderWalks ==
    { << PathExt(1, ".pdf"), PathExt(3, ".txt") >>,
      << PathExt(2, ".PDF"), PathExt(1, ".pdf") >> }

\* Dropped items: kind says what os.path.isfile / isdir answer for the item,
\* paths is the item itself (a file) or its walk (a directory).
DropItem(kind, paths) == [kind |-> kind, paths |-> paths]
Drops ==
    { << DropItem("file", << PathExt(3, ".docx") >>) >>,
      << DropItem("file", << PathExt(3, ".txt") >>),
         DropItem("dir", << PathExt(2, ".PDF"), PathExt(3, ".txt") >>) >>,
      << DropItem("gone", << PathExt(1, ".pdf") >>) >> }

\* A pick of two files with the same base name.
SameStemBatches == { << PathExt(1, ".pdf"), PathExt(1, ".docx") >> }

\* The one file dropped while runs go on.
RunDrops == { << DropItem("file", << PathOf(MaxFiles + 1) >>) >> }

\* config.SUPPORTED_EXTENSIONS (config.py 6-22), the extensions that occur here.
SUPPORTED_EXTENSIONS == { ".pdf", ".docx", ".png" }

\* Markdown pieces a converted document is made of: a heading, a line end,
\* plain text, bold, italic, an image, a link.
PieceNames == { "heading", "newline", "plain", "bold", "italic", "image", "link" }
PieceText(name) ==
    CASE name = "heading" -> << "#", " ", "T" >>
      [] name = "newline" -> << "\n" >>
      [] name = "plain"   -> << "x" >>
      [] name = "bold"    -> << "*", "*", "x", "*", "*" >>
      [] name = "italic"  -> << "*", "x", "*" >>
      [] name = "image"   -> << "!", "[", "a", "]", "(", "b", ")" >>
      [] name = "link"    -> << "[", "a", "]", "(", "b", ")" >>
\* Sequences of pieces that read as those pieces: two emphasis runs do not
\* touch ('*x**x*' is one run around 'x**x', not two).
Emphasis == { "bold", "italic" }
PieceSeqs ==
    { pieces \in UNION { [1..n -> PieceNames] : n \in 1..MaxPieces } :
        \A k \in 1..(Len(pieces) - 1) :
            ~(pieces[k] \in Emphasis /\ pieces[k + 1] \in Emphasis) }

\* The markdown text of a sequence of pieces.
RECURSIVE MarkdownOf(_)
MarkdownOf(pieces) ==
    IF pieces = << >> THEN << >>
    ELSE PieceText(Head(pieces)) \o MarkdownOf(Tail(pieces))

\* result.document: what its exports return; export_to_doctags is there on
\* engines that have it.
Document(md, has_doctags) ==
    IF has_doctags
    THEN [ markdown |-> md, html |-> << "<", "p", ">" >>, dict |-> "dict",
           doctags |-> << "<", "d", ">" >> ]
    ELSE [ markdown |-> md, html |-> << "<", "p", ">" >>, dict |-> "dict" ]

\* Format names export_content is called with: the five of the combobox and
\* one that is none of them.
ExportFormats == { "Markdown", "HTML", "JSON", "DocTags", "Text", "PDF" }

OutputFormats == { "Markdown", "JSON" }
OutputDirs    == { "Documents", "out" }

VARIABLES
    \* import-time facts of conversion_utils
    DOCLING_AVAILABLE, VLM_AVAILABLE, ASR_AVAILABLE,
    OCR_OPTIONS_AVAILABLE, OCRMAC_AVAILABLE,
    \* the installed engine's configuration schema: the optional fields it
    \* declares (what hasattr answers), and whether its objects reject an
    \* assignment to a field they do not declare
    DECLARED, STRICT_ATTRS,
    \* a direct call of the configuration builder: its argument and what
    \* build_pipeline_options and build_converter return for it
    arg_settings, ret_options, ret_converter,
    \* a direct call of export_content: the conversion result's document, the
    \* format name, and the content returned
    arg_doc, arg_format, ret_content,
    \* DoclingGUI fields
    file_list, file_listbox, opts, is_converting, cancel_requested, converter,
    convert_selected_btn, convert_all_btn, cancel_btn,
    progress_var, status_label,
    \* Tk event queue: callbacks posted with root.after(0, ...)
    queue,
    \* conversion_worker: position and locals
    w_pc, w_files, w_settings, w_i, successful, failed,
    \* history of the current run (reset by an accepted start)
    run_log, checks, calls, written, posted_progress, cancel_pt,
    start_ignored, workers

uiVars   == << file_list, file_listbox, opts, is_converting, cancel_requested, converter,
               convert_selected_btn, convert_all_btn, cancel_btn,
               progress_var, status_label >>
envVars  == << DOCLING_AVAILABLE, VLM_AVAILABLE, ASR_AVAILABLE,
               OCR_OPTIONS_AVAILABLE, OCRMAC_AVAILABLE, DECLARED, STRICT_ATTRS >>
callVars == << arg_settings, ret_options, ret_converter,
               arg_doc, arg_format, ret_content >>
wVars    == << w_pc, w_files, w_settings, w_i, successful, failed >>
histVars == << run_log, checks, calls, written, posted_progress, cancel_pt,
               start_ignored, workers >>
vars     == << envVars, callVars, uiVars, queue, wVars, histVars >>

\* ------------------------------------------------------------------ helpers
NORMAL   == "normal"
DISABLED == "disabled"

\* One posted callback.  cb names the target (_log_message, status_label.config,
\* _update_progress, _update_preview, conversion_finished); text is the message
\* kind; x, y are its numeric arguments.
Msg(cb, text, x, y) == [cb |-> cb, text |-> text, x |-> x, y |-> y]

Range(s) == { s[k] : k \in 1..Len(s) }

\* str.lower() on the extensions that occur here.
Lower(ext) ==
    CASE ext = ".PDF"  -> ".pdf"
      [] ext = ".Docx" -> ".docx"
      [] OTHER         -> ext

\* The elements of s at the (ascending) positions in sel.
RECURSIVE SelectAt(_, _, _)
SelectAt(s, sel, k) ==
    IF k > Len(s) THEN << >>
    ELSE IF k \in sel THEN << s[k] >> \o SelectAt(s, sel, k + 1)
         ELSE SelectAt(s, sel, k + 1)

\* ------------------------------------------------------------------ settings
\* init_variables (lines 137-180): the option variables the worker reads
\* and the builder read.  ocr_confidence and images_scale are in tenths.
DefaultOptions ==
    [ pipeline_type             |-> "Standard",
      vlm_model                 |-> "granite_docling",
      output_format             |-> "Markdown",
      enable_ocr                |-> TRUE,
      do_table_structure        |-> TRUE,
      generate_picture_images   |-> FALSE,
      do_formula_enrichment     |-> TRUE,
      do_code_enrichment        |-> TRUE,
      do_picture_classification |-> TRUE,
      do_picture_description    |-> FALSE,
      ocr_engine                |-> "RapidOCR",
      ocr_language              |-> "en",
      force_full_page_ocr       |-> FALSE,
      ocr_confidence            |-> 5,
      table_mode                |-> "Accurate",
      do_cell_matching          |-> TRUE,
      max_pages                 |-> 0,
      max_file_size_mb          |-> 0,
      document_timeout          |-> 0,
      generate_page_images      |-> FALSE,
      generate_table_images     |-> FALSE,
      images_scale              |-> 10,
      device                    |-> "auto",
      num_threads               |-> 4,
      use_flash_attention       |-> FALSE,
      output_directory          |-> "Documents",
      create_subfolder          |-> FALSE,
      overwrite_files           |-> FALSE ]

\* get_current_settings (lines 182-219): a fresh dict of the variables' values.
get_current_settings ==
    [ pipeline_type             |-> opts.pipeline_type,
      vlm_model                 |-> opts.vlm_model,
      output_format             |-> opts.output_format,
      enable_ocr                |-> opts.enable_ocr,
      do_table_structure        |-> opts.do_table_structure,
      generate_picture_images   |-> opts.generate_picture_images,
      do_formula_enrichment     |-> opts.do_formula_enrichment,
      do_code_enrichment        |-> opts.do_code_enrichment,
      do_picture_classification |-> opts.do_picture_classification,
      do_picture_description    |-> opts.do_picture_description,
      ocr_engine                |-> opts.ocr_engine,
      ocr_language              |-> opts.ocr_language,
      force_full_page_ocr       |-> opts.force_full_page_ocr,
      ocr_confidence            |-> opts.ocr_confidence,
      table_mode                |-> opts.table_mode,
      do_cell_matching          |-> opts.do_cell_matching,
      max_pages                 |-> opts.max_pages,
      max_file_size_mb          |-> opts.max_file_size_mb,
      document_timeout          |-> opts.document_timeout,
      generate_page_images      |-> opts.generate_page_images,
      generate_table_images     |-> opts.generate_table_images,
      images_scale              |-> opts.images_scale,
      device                    |-> opts.device,
      num_threads               |-> opts.num_threads,
      use_flash_attention       |-> opts.use_flash_attention,
      output_directory          |-> opts.output_directory,
      create_subfolder          |-> opts.create_subfolder,
      overwrite_files           |-> opts.overwrite_files ]

\* ------------------------------------------------------------------ conversion_utils
\* get_output_extension (lines 78-87).
get_output_extension(format_name) ==
    CASE format_name = "Markdown" -> ".md"
      [] format_name = "HTML"     -> ".html"
      [] format_name = "JSON"     -> ".json"
      [] format_name = "DocTags"  -> ".doctags"
      [] format_name = "Text"     -> ".txt"
      [] OTHER                    -> ".txt"

\* dict.get(key, default).
\* ---- re.sub on strings, kept as sequences of characters
Min(S) == CHOOSE x \in S : \A y \in S : x <= y
SubSeq1(s, a, b) == IF a > b THEN << >> ELSE SubSeq(s, a, b)

\* "." matches any character but a newline: s[a..b] has none.
Dots(s, a, b) == \A k \in a..b : s[k] # "\n"
\* \s
IsSpace(c) == c \in { " ", "\n", "\t" }

\* The number of characters from position i on that are c / that are \s.
RECURSIVE RunOf(_, _, _)
RunOf(s, i, c) ==
    IF i <= Len(s) /\ s[i] = c THEN 1 + RunOf(s, i + 1, c) ELSE 0
RECURSIVE SpaceRun(_, _)
SpaceRun(s, i) ==
    IF i <= Len(s) /\ IsSpace(s[i]) THEN 1 + SpaceRun(s, i + 1) ELSE 0

\* Line 107: re.sub(r'^#{1,6}\s+', '', md, flags=re.MULTILINE), from
\* position i on.  A match starts at a line start with one to six '#'
\* followed by white space, and takes all of it.
RECURSIVE sub_headings(_, _)
sub_headings(s, i) ==
    IF i > Len(s) THEN << >>
    ELSE LET at_line_start == i = 1 \/ s[i - 1] = "\n"
             h == RunOf(s, i, "#")
             w == SpaceRun(s, i + h)
         IN  IF at_line_start /\ h >= 1 /\ h <= 6 /\ w >= 1
             THEN sub_headings(s, i + h + w)
             ELSE << s[i] >> \o sub_headings(s, i + 1)

\* Line 108: re.sub(r'\*\*(.+?)\*\*', r'\1', text).  The group is the
\* shortest non-empty run without a newline that is followed by '**'.
RECURSIVE sub_bold(_, _)
sub_bold(s, i) ==
    IF i > Len(s) THEN << >>
    ELSE LET ends == { j \in (i + 3)..(Len(s) - 1) :
                         /\ s[j] = "*" /\ s[j + 1] = "*"
                         /\ Dots(s, i + 2, j - 1) }
         IN  IF i + 1 <= Len(s) /\ s[i] = "*" /\ s[i + 1] = "*" /\ ends # {}
             THEN SubSeq1(s, i + 2, Min(ends) - 1) \o sub_bold(s, Min(ends) + 2)
             ELSE << s[i] >> \o sub_bold(s, i + 1)

\* Line 109: re.sub(r'\*(.+?)\*', r'\1', text).
RECURSIVE sub_italic(_, _)
sub_italic(s, i) ==
    IF i > Len(s) THEN << >>
    ELSE LET ends == { j \in (i + 2)..Len(s) :
                         s[j] = "*" /\ Dots(s, i + 1, j - 1) }
         IN  IF s[i] = "*" /\ ends # {}
             THEN SubSeq1(s, i + 1, Min(ends) - 1) \o sub_italic(s, Min(ends) + 1)
             ELSE << s[i] >> \o sub_italic(s, i + 1)

\* The positions k of a ')' that can close '](...)' opened at j, j + 1.
Closers(s, j) ==
    { k \in (j + 2)..Len(s) : s[k] = ")" /\ Dots(s, j + 2, k - 1) }

\* Line 110: re.sub(r'!\[.*?\]\(.*?\)', '', text).
RECURSIVE sub_images(_, _)
sub_images(s, i) ==
    IF i > Len(s) THEN << >>
    ELSE LET mids == { j \in (i + 2)..(Len(s) - 1) :
                         /\ s[j] = "]" /\ s[j + 1] = "("
                         /\ Dots(s, i + 2, j - 1)
                         /\ Closers(s, j) # {} }
         IN  IF i + 1 <= Len(s) /\ s[i] = "!" /\ s[i + 1] = "[" /\ mids # {}
             THEN sub_images(s, Min(Closers(s, Min(mids))) + 1)
             ELSE << s[i] >> \o sub_images(s, i + 1)

\* Line 111: re.sub(r'\[(.+?)\]\(.*?\)', r'\1', text).
RECURSIVE sub_links(_, _)
sub_links(s, i) ==
    IF i > Len(s) THEN << >>
    ELSE LET mids == { j \in (i + 2)..(Len(s) - 1) :
                         /\ s[j] = "]" /\ s[j + 1] = "("
                         /\ Dots(s, i + 1, j - 1)
                         /\ Closers(s, j) # {} }
         IN  IF s[i] = "[" /\ mids # {}
             THEN SubSeq1(s, i + 1, Min(mids) - 1)
                    \o sub_links(s, Min(Closers(s, Min(mids))) + 1)
             ELSE << s[i] >> \o sub_links(s, i + 1)

\* The substitutions with links taken before images.
strip_markdown_LinksFirst(md) ==
    sub_images(sub_links(sub_italic(sub_bold(sub_headings(md, 1), 1), 1), 1), 1)

\* Lines 107-111: headings, bold, italic, images, links, in this order.
strip_markdown(md) ==
    sub_links(sub_images(sub_italic(sub_bold(sub_headings(md, 1), 1), 1), 1), 1)

\* Line 99: json.dumps(obj, indent=2, ensure_ascii=False).
json_dumps(obj, indent, ensure_ascii) ==
    << "json.dumps", obj, indent, ensure_ascii >>

\* An export_content without the hasattr test of line 101.
export_content_NoProbe(doc, format_name) ==
    IF format_name = "Markdown" THEN doc.markdown
    ELSE IF format_name = "HTML" THEN doc.html
    ELSE IF format_name = "JSON" THEN json_dumps(doc.dict, 2, FALSE)
    ELSE IF format_name = "DocTags" THEN doc.markdown
    ELSE IF format_name = "Text" THEN strip_markdown(doc.markdown)
    ELSE doc.markdown

\* export_content (lines 90-115).  doc is result.document: its exports by
\* name, export_to_doctags being there or not.
export_content(doc, format_name) ==
    IF format_name = "Markdown" THEN doc.markdown
    ELSE IF format_name = "HTML" THEN doc.html
    ELSE IF format_name = "JSON" THEN json_dumps(doc.dict, 2, FALSE)
    ELSE IF format_name = "DocTags"
    THEN IF "doctags" \in DOMAIN doc THEN doc.doctags ELSE doc.markdown
    ELSE IF format_name = "Text" THEN strip_markdown(doc.markdown)
    ELSE doc.markdown

Get(s, key, default) == IF key \in DOMAIN s THEN s[key] ELSE default

\* Python's None, and an exception leaving the builder.
None   == [kind |-> "None"]
Raised == [kind |-> "raised"]

\* A field assignment that is made when cond holds: field name -> value.
NoFields == [f \in {} |-> TRUE]
Assign(cond, field, value) == IF cond THEN field :> value ELSE NoFields

\* An engine choice that ends in an else branch building RapidOCR options.
ocr_options_FallbackRapid(ocr_engine, lang, force_full_page, confidence) ==
    IF ocr_engine = "EasyOCR"
    THEN [ variant |-> "EasyOcrOptions", lang |-> << lang >>,
           force_full_page_ocr |-> force_full_page,
           confidence_threshold |-> confidence ]
    ELSE IF ocr_engine = "OcrMac" /\ OCRMAC_AVAILABLE
    THEN [ variant |-> "OcrMacOptions", lang |-> lang,
           force_full_page_ocr |-> force_full_page ]
    ELSE [ variant |-> "RapidOcrOptions", lang |-> << lang >>,
           force_full_page_ocr |-> force_full_page ]

\* Lines 167-182: the OCR options object for an engine name (None: no branch
\* is taken and nothing is assigned).
ocr_options(ocr_engine, lang, force_full_page, confidence) ==
    IF ocr_engine = "EasyOCR"
    THEN [ variant |-> "EasyOcrOptions", lang |-> << lang >>,
           force_full_page_ocr |-> force_full_page,
           confidence_threshold |-> confidence ]
    ELSE IF ocr_engine = "RapidOCR" \/ ocr_engine = "Auto"
    THEN [ variant |-> "RapidOcrOptions", lang |-> << lang >>,
           force_full_page_ocr |-> force_full_page ]
    ELSE IF ocr_engine = "OcrMac" /\ OCRMAC_AVAILABLE
    THEN [ variant |-> "OcrMacOptions", lang |-> lang,
           force_full_page_ocr |-> force_full_page ]
    ELSE None

\* Line 161: the OCR block is entered when the option classes were imported
\* and enable_ocr, read here with default False, is set.
OcrGate(s) == OCR_OPTIONS_AVAILABLE /\ Get(s, "enable_ocr", FALSE)

\* The field of the options object an assignment goes through: mode and
\* do_cell_matching are set on the object held by table_structure_options.
TopField(field) ==
    IF field \in { "table_structure_options.mode",
                   "table_structure_options.do_cell_matching" }
    THEN "table_structure_options"
    ELSE field

\* The field assignments of build_pipeline_options after the constructor
\* (lines 142-200), each under the test the code makes before it.
OptionalWrites(s) ==
    LET ocr == ocr_options(Get(s, "ocr_engine", "RapidOCR"),
                           Get(s, "ocr_language", "en"),
                           Get(s, "force_full_page_ocr", TRUE),
                           Get(s, "ocr_confidence", 8))
        table == "table_structure_options" \in DECLARED
        timeout == Get(s, "document_timeout", 0)
    IN  Assign("do_formula_enrichment" \in DECLARED, "do_formula_enrichment",
               Get(s, "do_formula_enrichment", TRUE))
        @@ Assign("do_code_enrichment" \in DECLARED, "do_code_enrichment",
                  Get(s, "do_code_enrichment", TRUE))
        @@ Assign(table, "table_structure_options.mode",
                  IF "table_mode" \in DOMAIN s /\ s["table_mode"] = "Fast"
                  THEN "FAST" ELSE "ACCURATE")
        @@ Assign(table, "table_structure_options.do_cell_matching",
                  Get(s, "do_cell_matching", TRUE))
        \* lines 168, 174, 179: assigned without a hasattr test
        @@ Assign(OcrGate(s) /\ ocr # None, "ocr_options", ocr)
        @@ Assign("cuda_use_flash_attention2" \in DECLARED,
                  "cuda_use_flash_attention2", Get(s, "use_flash_attention", FALSE))
        @@ Assign("images_scale" \in DECLARED, "images_scale",
                  Get(s, "images_scale", 10))
        @@ Assign(timeout > 0 /\ "document_timeout" \in DECLARED,
                  "document_timeout", timeout)

\* build_pipeline_options (lines 118-202).  The result is None, or the
\* options object as the fields assigned; an assignment to a field the
\* schema does not declare raises when the object rejects such assignments
\* and creates the attribute otherwise.
build_pipeline_options(s) ==
    IF ~DOCLING_AVAILABLE THEN None
    ELSE LET base ==
               [ do_ocr                    |-> Get(s, "enable_ocr", TRUE),
                 do_table_structure        |-> Get(s, "do_table_structure", TRUE),
                 do_picture_classification |-> Get(s, "do_picture_classification", TRUE),
                 do_picture_description    |-> Get(s, "do_picture_description", FALSE),
                 generate_page_images      |-> Get(s, "generate_page_images", FALSE),
                 generate_picture_images   |-> Get(s, "generate_picture_images", FALSE),
                 generate_table_images     |-> Get(s, "generate_table_images", FALSE),
                 accelerator_options       |->
                     [ device      |-> Get(s, "device", "cpu"),
                       num_threads |-> Get(s, "num_threads", 4) ] ]
             writes == OptionalWrites(s)
         IN  IF STRICT_ATTRS /\ \E f \in DOMAIN writes : TopField(f) \notin DECLARED
             THEN Raised
             ELSE [ kind |-> "PdfPipelineOptions", fields |-> base @@ writes ]

\* A build_converter that builds the PDF configuration before it looks at
\* the pipeline type.
build_converter_BuildsFirst(s) ==
    LET pipeline_type == Get(s, "pipeline_type", "Standard")
        po == build_pipeline_options(s)
        made(pipeline, format_options, name) ==
            [ raised |-> FALSE, pipeline_name |-> name,
              converter |-> [ kind |-> "DocumentConverter", pipeline |-> pipeline,
                              format_options |-> format_options ] ]
    IN  IF ~DOCLING_AVAILABLE
        THEN [ raised |-> FALSE, pipeline_name |-> "unavailable", converter |-> None ]
        ELSE IF po = Raised
        THEN [ raised |-> TRUE, pipeline_name |-> "raised", converter |-> None ]
        ELSE IF pipeline_type = "VLM" /\ VLM_AVAILABLE
        THEN made("VlmPipelineOptions", {}, "VLM")
        ELSE IF pipeline_type = "ASR" /\ ASR_AVAILABLE
        THEN made("AsrPipelineOptions", {}, "ASR")
        ELSE IF po # None
        THEN made("default", { [ format |-> "PDF", pipeline_options |-> po ] },
                  "Standard")
        ELSE made("default", {}, "Standard")

\* build_converter (lines 205-236): the converter, the label of the pipeline
\* actually built, and whether the call raised (then neither is returned).
\* format_options is the set of formats given a configuration.
build_converter(s) ==
    LET pipeline_type == Get(s, "pipeline_type", "Standard")
        po == build_pipeline_options(s)
        made(pipeline, format_options, name) ==
            [ raised |-> FALSE, pipeline_name |-> name,
              converter |-> [ kind |-> "DocumentConverter", pipeline |-> pipeline,
                              format_options |-> format_options ] ]
    IN  IF ~DOCLING_AVAILABLE
        THEN [ raised |-> FALSE, pipeline_name |-> "unavailable", converter |-> None ]
        ELSE IF pipeline_type = "VLM" /\ VLM_AVAILABLE
        THEN made("VlmPipelineOptions", {}, "VLM")
        ELSE IF pipeline_type = "ASR" /\ ASR_AVAILABLE
        THEN made("AsrPipelineOptions", {}, "ASR")
        ELSE IF po = Raised
        THEN [ raised |-> TRUE, pipeline_name |-> "raised", converter |-> None ]
        ELSE IF po # None
        THEN made("default", { [ format |-> "PDF", pipeline_options |-> po ] },
                  "Standard")
        ELSE made("default", {}, "Standard")

\* ------------------------------------------------------------------ worker helpers
\* datetime.now() at clock reading ts: the seconds around a change of year.
Clock(ts) ==
    LET t == 58 + ts
    IN  IF t < 60
        THEN [year |-> 2025, month |-> 12, day |-> 31,
              hour |-> 23, minute |-> 59, second |-> t]
        ELSE [year |-> 2026, month |-> 1, day |-> 1,
              hour |-> 0, minute |-> (t - 60) \div 60, second |-> (t - 60) % 60]

\* Zero-padded decimal fields, as sequences of digits.
TwoDigits(n)  == << (n \div 10) % 10, n % 10 >>
FourDigits(n) == << (n \div 1000) % 10, (n \div 100) % 10 >> \o TwoDigits(n)

\* Line 621: strftime("%Y%m%d_%H%M%S"), as the sequence of its characters.
strftime(now) ==
    FourDigits(now.year) \o TwoDigits(now.month) \o TwoDigits(now.day)
      \o << "_" >>
      \o TwoDigits(now.hour) \o TwoDigits(now.minute) \o TwoDigits(now.second)

\* A collision test that forgets the overwrite setting.
NeedsStamp_IgnoresOverwrite(exists, overwrite_files) == exists

\* Line 620: the timestamp is added when the path exists and overwriting was
\* not asked for.
NeedsStamp(exists, overwrite_files) == exists /\ ~overwrite_files

\* A worker that reads the option variables when it needs them instead of
\* the record it was handed.
output_path_Live(filepath, settings, exists, ts) ==
    [ dir   |-> opts.output_directory,
      sub   |-> IF opts.create_subfolder THEN filepath.stem ELSE "",
      stem  |-> filepath.stem,
      stamp |-> IF NeedsStamp(exists, opts.overwrite_files)
                THEN strftime(Clock(ts)) ELSE << >>,
      ext   |-> get_output_extension(opts.output_format) ]

\* A worker that puts every output directly into the output directory.
output_dir_Flat(filepath, settings) ==
    [ dir |-> settings.output_directory, sub |-> "" ]

\* Lines 609-612: the directory the output goes to, which line 614 creates:
\* the output directory, or the folder named after the file inside it.
output_dir(filepath, settings) ==
    [ dir |-> settings.output_directory,
      sub |-> IF settings.create_subfolder THEN filepath.stem ELSE "" ]

\* Lines 608-624: the path the content is written to.  sub is the per-file
\* subfolder ("" for none), stamp the characters of the timestamp suffix
\* (none: the empty sequence); the file name is stem, then "_" and stamp when
\* there is one, then ext.  exists is os.path.exists of the unstamped path,
\* ts the clock reading.
output_path(filepath, settings, exists, ts) ==
    [ dir   |-> output_dir(filepath, settings).dir,
      sub   |-> output_dir(filepath, settings).sub,
      stem  |-> filepath.stem,
      stamp |-> IF NeedsStamp(exists, settings.overwrite_files)
                THEN strftime(Clock(ts)) ELSE << >>,
      ext   |-> get_output_extension(settings.output_format) ]

\* A loop that stays on a file whose conversion raised.
NextIndex_Retry(k, raised) == IF raised THEN k ELSE k + 1

\* Line 590: enumerate hands out the next index whatever happened to file k.
NextIndex(k, raised) == k + 1

\* A loop that never looks at the flag.
ShouldBreak_Never(flag) == FALSE

\* Line 591: the loop is left when the flag read is set.
ShouldBreak(flag) == flag

\* A worker that drops the result of a file when Cancel came during it.
SuccessfulAfter_DropOnCancel(n, raised) ==
    IF raised \/ cancel_requested THEN n ELSE n + 1

\* A handler that logs the error but does not count it.
FailedAfter_Uncounted(n, raised) == n

\* Lines 634, 641: the counters after one file.
SuccessfulAfter(n, raised) == IF raised THEN n ELSE n + 1
FailedAfter(n, raised) == IF raised THEN n + 1 ELSE n

\* Progress computed from the index instead of the count.
progress_FromIndex(k, total) == [num |-> k * 100, den |-> total]

\* Line 644: progress = ((i + 1) / total) * 100, kept as the exact fraction
\* num / den (in percent).
progress(k, total) == [num |-> (k + 1) * 100, den |-> total]

\* A worker handed the list object itself: it reads the file at position k
\* from file_list as it is now, when it still has one there.
FileAt_Alias(k) ==
    IF k < Len(file_list) THEN file_list[k + 1] ELSE w_files[k + 1]

\* Line 590: the file enumerate yields at index k, from the list the worker
\* was handed (the copy of line 534 or the new list of line 525).
FileAt(k) == w_files[k + 1]

\* the places where a per-file exception can be raised inside the try of
\* lines 599-641: convert (601), makedirs (614), export_content (627),
\* open/write (630-631).
RaiseSites == { "convert", "makedirs", "export", "write" }

\* ------------------------------------------------------------------ initial state
NoCancel == [done |-> -1, pc |-> "none", live |-> FALSE]

\* __init__ (lines 40-88) and create_controls_panel (gui_panels.py 577-640).
Constructed ==
    /\ file_list = << >>
    /\ file_listbox = << >>
    /\ opts = DefaultOptions
    /\ is_converting = FALSE
    /\ cancel_requested = FALSE
    /\ converter = None
    /\ convert_selected_btn = NORMAL
    /\ convert_all_btn = NORMAL
    /\ cancel_btn = DISABLED
    /\ progress_var = [num |-> 0, den |-> 1]
    /\ status_label = "Ready"
    /\ queue = << >>
    /\ w_pc = "none"
    /\ w_files = << >>
    /\ w_settings = DefaultOptions
    /\ w_i = 0
    /\ successful = 0
    /\ failed = 0
    /\ run_log = << >>
    /\ checks = << >>
    /\ calls = << >>
    /\ written = << >>
    /\ posted_progress = << >>
    /\ cancel_pt = NoCancel
    /\ start_ignored = FALSE
    /\ workers = 0

\* The optional fields a configuration schema may declare.
OptionalFields ==
    { "do_formula_enrichment", "do_code_enrichment", "table_structure_options",
      "ocr_options", "cuda_use_flash_attention2", "images_scale",
      "document_timeout" }

\* No direct call of the builder has been made.
NotCalled == [kind |-> "not called"]
NotBuilt  == [raised |-> FALSE, pipeline_name |-> "not called", converter |-> NotCalled]

\* No direct call of export_content has been made.
NotExported ==
    /\ arg_doc = Document(<< >>, FALSE)
    /\ arg_format = "Markdown"
    /\ ret_content = NotCalled

\* The application started: the engine is installed or not; when it is, with
\* its VLM, ASR and OCR option classes and a schema declaring every optional
\* field.
Init ==
    /\ DOCLING_AVAILABLE \in BOOLEAN
    /\ VLM_AVAILABLE = TRUE
    /\ ASR_AVAILABLE = TRUE
    /\ OCR_OPTIONS_AVAILABLE = TRUE
    /\ OCRMAC_AVAILABLE = FALSE
    /\ DECLARED = OptionalFields
    /\ STRICT_ATTRS = TRUE
    /\ arg_settings = DefaultOptions
    /\ ret_options = NotCalled
    /\ ret_converter = NotBuilt
    /\ NotExported
    /\ Constructed

\* ------------------------------------------------------------------ interactive thread
\* "Cancelling..." callbacks posted by cancel_conversion and not yet run.
IsCancelling(m) == m.text = "Cancelling..."
CancelPending == Len(SelectSeq(queue, IsCancelling))

\* A list that takes any supported path, in the list already or not.
add_file_to_list_NoDedup(list, filepath) ==
    IF Lower(filepath.ext) \in SUPPORTED_EXTENSIONS
    THEN Append(list, filepath)
    ELSE list

\* add_file_to_list (lines 341-353): the list after offering one path.
add_file_to_list(list, filepath) ==
    IF filepath \notin Range(list)
    THEN IF Lower(filepath.ext) \in SUPPORTED_EXTENSIONS
         THEN Append(list, filepath)
         ELSE list
    ELSE list

\* The line it logs for an unsupported path (line 353).
add_file_log(list, filepath) ==
    IF filepath \notin Range(list) /\ Lower(filepath.ext) \notin SUPPORTED_EXTENSIONS
    THEN << Msg("log", "Unsupported file type", 0, 0) >>
    ELSE << >>

\* os.path.basename of a path: the row shown for it.
basename(filepath) == [stem |-> filepath.stem, ext |-> filepath.ext]

\* A list panel that shows a row for every path offered.
add_file_row_Always(list, rows, filepath) == Append(rows, basename(filepath))

\* Lines 347-348: the listbox rows after offering one path to a list; the
\* row is inserted in the branch that appends the path.
add_file_row(list, rows, filepath) ==
    IF filepath \notin Range(list)
    THEN IF Lower(filepath.ext) \in SUPPORTED_EXTENSIONS
         THEN Append(rows, basename(filepath))
         ELSE rows
    ELSE rows

\* The rows after the same loop as AddAll.
RECURSIVE AddAllRows(_, _, _)
AddAllRows(list, rows, files) ==
    IF files = << >> THEN rows
    ELSE AddAllRows(add_file_to_list(list, Head(files)),
                    add_file_row(list, rows, Head(files)), Tail(files))

\* del s[index] and Listbox.delete(index), index counted from 0.
DeleteAt(s, index) ==
    [k \in 1..(Len(s) - 1) |-> IF k <= index THEN s[k] ELSE s[k + 1]]

\* The loop of remove_selected (lines 358-360): the selected positions are
\* deleted from the last to the first.
RECURSIVE RemoveAll(_, _)
RemoveAll(s, selection) ==
    IF selection = {} THEN s
    ELSE LET last == CHOOSE k \in selection : \A j \in selection : j <= k
         IN  RemoveAll(DeleteAt(s, last - 1), selection \ { last })

\* The loop of add_files (lines 325-326) over the dialog's answer.
RECURSIVE AddAll(_, _)
AddAll(list, files) ==
    IF files = << >> THEN list
    ELSE AddAll(add_file_to_list(list, Head(files)), Tail(files))

\* The lines logged by that loop, and the number of paths it added.
RECURSIVE AddAllLog(_, _)
AddAllLog(list, files) ==
    IF files = << >> THEN << >>
    ELSE add_file_log(list, Head(files))
           \o AddAllLog(add_file_to_list(list, Head(files)), Tail(files))

AddedCount(list, files) == Len(AddAll(list, files)) - Len(list)

\* Lines logged by the file handlers and not yet shown.
IsNote(m) ==
    m.text \in { "Unsupported file type", "Added from folder",
                 "Added via drag & drop", "No supported files found" }
NotesPending == Len(SelectSeq(queue, IsNote))

\* add_files (lines 305-326).
add_files(files) ==
    /\ Len(AddAll(file_list, files)) <= MaxFiles
    /\ AddAllLog(file_list, files) # << >> => NotesPending < MaxPending
    /\ file_list' = AddAll(file_list, files)
    /\ file_listbox' = AddAllRows(file_list, file_listbox, files)
    /\ queue' = queue \o AddAllLog(file_list, files)
    /\ UNCHANGED << envVars, callVars, opts, is_converting, cancel_requested, converter,
                    convert_selected_btn, convert_all_btn, cancel_btn,
                    progress_var, status_label, wVars, histVars >>

\* The filter of add_folder (lines 335-336): the walked files it offers.
IsSupported(filepath) == Lower(filepath.ext) \in SUPPORTED_EXTENSIONS

\* add_folder (lines 328-339): walk is what os.walk yields for the chosen
\* folder; count counts every supported file offered, added or not.
add_folder(walk) ==
    LET offered == SelectSeq(walk, IsSupported)
    IN  /\ Len(AddAll(file_list, offered)) <= MaxFiles
        /\ NotesPending < MaxPending
        /\ file_list' = AddAll(file_list, offered)
        /\ file_listbox' = AddAllRows(file_list, file_listbox, offered)
        /\ queue' = queue \o AddAllLog(file_list, offered)
                           \o << Msg("log", "Added from folder", Len(offered), 0) >>
        /\ UNCHANGED << envVars, callVars, opts, is_converting, cancel_requested, converter,
                        convert_selected_btn, convert_all_btn, cancel_btn,
                        progress_var, status_label, wVars, histVars >>

\* The paths on_drop offers to add_file_to_list (lines 497-508): a file
\* itself, every file under a directory, nothing for anything else.
RECURSIVE DropPaths(_)
DropPaths(items) ==
    IF items = << >> THEN << >>
    ELSE (IF Head(items).kind \in { "file", "dir" } THEN Head(items).paths ELSE << >>)
           \o DropPaths(Tail(items))

\* on_drop (lines 488-513).
on_drop(items) ==
    LET offered == DropPaths(items)
        n       == AddedCount(file_list, offered)
    IN  /\ Len(AddAll(file_list, offered)) <= MaxFiles
        /\ NotesPending < MaxPending
        /\ file_list' = AddAll(file_list, offered)
        /\ file_listbox' = AddAllRows(file_list, file_listbox, offered)
        /\ queue' = queue \o AddAllLog(file_list, offered)
                           \o << IF n > 0
                                 THEN Msg("log", "Added via drag & drop", n, 0)
                                 ELSE Msg("log", "No supported files found", 0, 0) >>
        /\ UNCHANGED << envVars, callVars, opts, is_converting, cancel_requested, converter,
                        convert_selected_btn, convert_all_btn, cancel_btn,
                        progress_var, status_label, wVars, histVars >>

\* remove_selected (lines 355-361): selection is file_listbox.curselection().
remove_selected(selection) ==
    /\ file_list' = RemoveAll(file_list, selection)
    /\ file_listbox' = RemoveAll(file_listbox, selection)
    /\ UNCHANGED << envVars, callVars, opts, is_converting, cancel_requested, converter,
                    convert_selected_btn, convert_all_btn, cancel_btn,
                    progress_var, status_label, queue, wVars, histVars >>

\* clear_files (lines 363-367).
clear_files ==
    /\ file_list' = << >>
    /\ file_listbox' = << >>
    /\ UNCHANGED << envVars, callVars, opts, is_converting, cancel_requested, converter,
                    convert_selected_btn, convert_all_btn, cancel_btn,
                    progress_var, status_label, queue, wVars, histVars >>

\* A start that forgets to clear the flag of the previous run.
StartFlags_NoReset ==
    /\ is_converting' = TRUE
    /\ UNCHANGED cancel_requested

\* Lines 546-547 of start_conversion.
StartFlags ==
    /\ is_converting' = TRUE
    /\ cancel_requested' = FALSE

\* A start that leaves the Convert buttons enabled.
StartButtons_KeepEnabled ==
    /\ UNCHANGED << convert_selected_btn, convert_all_btn >>
    /\ cancel_btn' = NORMAL

\* Lines 550-552 of start_conversion.
StartButtons ==
    /\ convert_selected_btn' = DISABLED
    /\ convert_all_btn' = DISABLED
    /\ cancel_btn' = NORMAL

\* start_conversion (lines 546-564), after the two early returns: flags,
\* buttons, settings snapshot, worker thread.
StartAccepted(files) ==
    /\ StartFlags
    /\ StartButtons
    /\ w_settings' = get_current_settings
    /\ w_files' = files
    /\ w_pc' = "begin"
    /\ w_i' = 0
    /\ successful' = 0
    /\ failed' = 0
    /\ workers' = workers + 1
    /\ run_log' = << >>
    /\ checks' = << >>
    /\ calls' = << >>
    /\ written' = << >>
    /\ posted_progress' = << >>
    /\ cancel_pt' = NoCancel
    /\ start_ignored' = FALSE
    /\ UNCHANGED << envVars, callVars, file_list, file_listbox, opts, converter, progress_var,
                    status_label, queue >>

\* A start request that changes nothing: messagebox (539-541) or return (544).
StartRefused ==
    /\ start_ignored' = (start_ignored \/ is_converting \/ ~DOCLING_AVAILABLE)
    /\ UNCHANGED << envVars, callVars, uiVars, queue, wVars, run_log, checks, calls,
                    written, posted_progress, cancel_pt, workers >>

\* A start_conversion without the test of lines 538-541.
start_conversion_NoCheck(files) ==
    IF is_converting THEN StartRefused ELSE StartAccepted(files)

\* start_conversion (lines 536-564).
start_conversion(files) ==
    IF ~DOCLING_AVAILABLE THEN StartRefused
    ELSE IF is_converting THEN StartRefused
    ELSE StartAccepted(files)

\* A click on a Convert button: Tk drops it when the button is disabled.
ClickConvert(btn, files) ==
    IF btn = DISABLED THEN StartRefused ELSE start_conversion(files)

\* convert_all (lines 528-534) behind its button.
convert_all ==
    /\ file_list # << >>
    /\ ClickConvert(convert_all_btn, file_list)

\* convert_selected (lines 517-526) behind its button.
convert_selected(selection) ==
    /\ selection # {}
    /\ ClickConvert(convert_selected_btn, SelectAt(file_list, selection, 1))

\* cancel_conversion (lines 660-663) behind its button.
cancel_conversion ==
    /\ cancel_btn = NORMAL
    /\ CancelPending < MaxPending
    /\ cancel_requested' = TRUE
    /\ queue' = Append(queue, Msg("status", "Cancelling...", 0, 0))
    /\ cancel_pt' = IF cancel_pt = NoCancel
                    THEN [done |-> successful + failed, pc |-> w_pc,
                          live |-> is_converting]
                    ELSE cancel_pt
    /\ UNCHANGED << envVars, callVars, file_list, file_listbox, opts, is_converting, converter,
                    convert_selected_btn, convert_all_btn, cancel_btn,
                    progress_var, status_label, wVars, run_log, checks, calls,
                    written, posted_progress, start_ignored, workers >>

\* conversion_finished (lines 665-670), run from the event queue.
conversion_finished ==
    /\ convert_selected_btn' = NORMAL
    /\ convert_all_btn' = NORMAL
    /\ cancel_btn' = DISABLED
    /\ queue' = Append(Tail(queue), Msg("status", "Ready", 0, 0))
    /\ UNCHANGED << progress_var, status_label, run_log >>

\* One callback taken from the event queue and run on the interactive thread:
\* _log_message, status_label.config, _update_progress (678-680),
\* _update_preview (701-705), conversion_finished.
Dispatch ==
    /\ queue # << >>
    /\ LET m == Head(queue) IN
         CASE m.cb = "log" ->
                \* run_log keeps the lines of the run, not the file panel's
                /\ run_log' = IF IsNote(m) THEN run_log ELSE Append(run_log, m)
                /\ queue' = Tail(queue)
                /\ UNCHANGED << progress_var, status_label, convert_selected_btn,
                                convert_all_btn, cancel_btn >>
           [] m.cb = "status" ->
                /\ status_label' = m.text
                /\ queue' = Tail(queue)
                /\ UNCHANGED << progress_var, run_log, convert_selected_btn,
                                convert_all_btn, cancel_btn >>
           [] m.cb = "progress" ->
                /\ progress_var' = [num |-> m.x, den |-> m.y]
                /\ queue' = Tail(queue)
                /\ UNCHANGED << status_label, run_log, convert_selected_btn,
                                convert_all_btn, cancel_btn >>
           [] m.cb = "preview" ->
                /\ queue' = Tail(queue)
                /\ UNCHANGED << progress_var, status_label, run_log,
                                convert_selected_btn, convert_all_btn, cancel_btn >>
           [] m.cb = "finished" -> conversion_finished
    /\ UNCHANGED << envVars, callVars, file_list, file_listbox, opts, is_converting, cancel_requested,
                    converter, wVars, checks, calls, written, posted_progress,
                    cancel_pt, start_ignored, workers >>

\* ------------------------------------------------------------------ option edits
\* The option widgets write their Tk variable (gui_panels.py); one edit each.
set_output_format(v) ==
    /\ v # opts.output_format
    /\ opts' = [opts EXCEPT !.output_format = v]
    /\ UNCHANGED << envVars, callVars, file_list, file_listbox, is_converting, cancel_requested, converter,
                    convert_selected_btn, convert_all_btn, cancel_btn,
                    progress_var, status_label, queue, wVars, histVars >>

\* browse_output_dir (lines 447-451).
browse_output_dir(folder) ==
    /\ folder # opts.output_directory
    /\ opts' = [opts EXCEPT !.output_directory = folder]
    /\ UNCHANGED << envVars, callVars, file_list, file_listbox, is_converting, cancel_requested, converter,
                    convert_selected_btn, convert_all_btn, cancel_btn,
                    progress_var, status_label, queue, wVars, histVars >>

toggle_create_subfolder ==
    /\ opts' = [opts EXCEPT !.create_subfolder = ~opts.create_subfolder]
    /\ UNCHANGED << envVars, callVars, file_list, file_listbox, is_converting, cancel_requested, converter,
                    convert_selected_btn, convert_all_btn, cancel_btn,
                    progress_var, status_label, queue, wVars, histVars >>

toggle_overwrite_files ==
    /\ opts' = [opts EXCEPT !.overwrite_files = ~opts.overwrite_files]
    /\ UNCHANGED << envVars, callVars, file_list, file_listbox, is_converting, cancel_requested, converter,
                    convert_selected_btn, convert_all_btn, cancel_btn,
                    progress_var, status_label, queue, wVars, histVars >>

\* A reset that takes the OCR confidence from the builder's fallback (0.8).
ResetValues_BuilderConfidence(o) ==
    [ DefaultOptions EXCEPT !.ocr_confidence = 8 ]

\* Lines 262-294: the value reset_options sets each option variable to.
ResetValues(o) ==
    [ pipeline_type             |-> "Standard",
      vlm_model                 |-> "granite_docling",
      output_format             |-> "Markdown",
      enable_ocr                |-> TRUE,
      do_table_structure        |-> TRUE,
      generate_picture_images   |-> FALSE,
      do_formula_enrichment     |-> TRUE,
      do_code_enrichment        |-> TRUE,
      do_picture_classification |-> TRUE,
      do_picture_description    |-> FALSE,
      ocr_engine                |-> "RapidOCR",
      ocr_language              |-> "en",
      force_full_page_ocr       |-> FALSE,
      ocr_confidence            |-> 5,
      table_mode                |-> "Accurate",
      do_cell_matching          |-> TRUE,
      max_pages                 |-> 0,
      max_file_size_mb          |-> 0,
      document_timeout          |-> 0,
      generate_page_images      |-> FALSE,
      generate_table_images     |-> FALSE,
      images_scale              |-> 10,
      device                    |-> "auto",
      num_threads               |-> 4,
      use_flash_attention       |-> FALSE,
      output_directory          |-> "Documents",
      create_subfolder          |-> FALSE,
      overwrite_files           |-> FALSE ]

\* reset_options (lines 260-301).
reset_options ==
    /\ opts' = ResetValues(opts)
    /\ UNCHANGED << envVars, callVars, file_list, file_listbox, is_converting, cancel_requested, converter,
                    convert_selected_btn, convert_all_btn, cancel_btn,
                    progress_var, status_label, queue, wVars, histVars >>

\* ------------------------------------------------------------------ worker thread
\* A summary that prints the success count on both lines.
Summary_SameCount(s, f) ==
    << Msg("log", "=== Conversion Complete ===", 0, 0),
       Msg("log", "Successful", s, 0),
       Msg("log", "Failed", s, 0),
       Msg("log", "===========================", 0, 0) >>

\* Lines 648-651: the final summary, four log lines.
Summary(s, f) ==
    << Msg("log", "=== Conversion Complete ===", 0, 0),
       Msg("log", "Successful", s, 0),
       Msg("log", "Failed", f, 0),
       Msg("log", "===========================", 0, 0) >>

\* An escaped exception that ends the thread without the finally clause.
OnEscape_NoFinally == "none"

\* Lines 653-657: where the worker goes when an exception escapes the
\* per-file handler: the except clause logs it, then the finally clause runs.
OnEscape == "finally"

\* Lines 568-588: configuration log, build_converter, loop counters.  raised
\* says whether build_converter raises (the engine's constructors may).
W_Begin(raised) ==
    /\ w_pc = "begin"
    /\ IF raised \/ build_converter(w_settings).raised
       THEN /\ queue' = queue \o << Msg("log", "=== Conversion Configuration ===", 0, 0),
                                    Msg("log", "Conversion error", 0, 0) >>
            /\ w_pc' = OnEscape
            /\ UNCHANGED converter
       ELSE /\ converter' = build_converter(w_settings).converter
            /\ queue' = queue \o << Msg("log", "=== Conversion Configuration ===", 0, 0),
                                    Msg("log", "Using pipeline", 0, 0) >>
            /\ w_pc' = "check"
    /\ w_i' = 0
    /\ successful' = 0
    /\ failed' = 0
    /\ UNCHANGED << envVars, callVars, file_list, file_listbox, opts, is_converting, cancel_requested,
                    convert_selected_btn, convert_all_btn, cancel_btn,
                    progress_var, status_label, w_files, w_settings, histVars >>

\* A break that says nothing in the log.
CancelLines_Silent == << >>

\* Line 592: what the worker logs when it leaves the loop on the flag.
CancelLines == << Msg("log", "Conversion cancelled by user", 0, 0) >>

\* Lines 590-597 and, when the loop is left, 648-651.
W_Check ==
    /\ w_pc = "check"
    /\ IF w_i >= Len(w_files)
       THEN \* the for loop is exhausted: no read of the flag
            /\ queue' = queue \o Summary(successful, failed)
            /\ w_pc' = "finally"
            /\ UNCHANGED << checks, calls >>
       ELSE /\ checks' = Append(checks, [i |-> w_i, flag |-> cancel_requested])
            /\ IF ShouldBreak(cancel_requested)
               THEN /\ queue' = queue \o CancelLines \o Summary(successful, failed)
                    /\ w_pc' = "finally"
                    /\ UNCHANGED calls
               ELSE /\ queue' = queue \o << Msg("status", "Converting", w_i, 0),
                                            Msg("log", "Converting", w_i, 0) >>
                    /\ calls' = Append(calls, w_i)
                    /\ w_pc' = "converting"
    /\ UNCHANGED << envVars, callVars, uiVars, w_files, w_settings, w_i, successful, failed,
                    run_log, written, posted_progress, cancel_pt, start_ignored,
                    workers >>

\* A worker that sets the progress variable itself instead of posting.
update_progress_Direct(q, value) ==
    /\ queue' = q
    /\ progress_var' = value

\* update_progress (lines 674-676), called with the event queue as it is
\* after the earlier posts of the same step: the value is posted, the
\* variable is left to _update_progress.
update_progress(q, value) ==
    /\ queue' = Append(q, Msg("progress", "value", value.num, value.den))
    /\ UNCHANGED progress_var

\* Lines 599-645 for file w_i once converter.convert has returned or raised:
\* site is "none" when nothing raises, else the place that does; exists and ts
\* are what os.path.exists and datetime.now() answer.  A written file is
\* recorded with its path, that answer and the directory makedirs created.
W_FileDone(site, exists, ts) ==
    /\ w_pc = "converting"
    /\ LET raised   == site # "none"
           filepath == FileAt(w_i)
           path     == output_path(filepath, w_settings, exists, ts)
           prog     == progress(w_i, Len(w_files))
           lines    == IF raised
                       THEN << Msg("log", "ERROR", w_i, 0) >>
                       ELSE << Msg("log", "Saved", w_i, 0),
                               Msg("preview", "content", w_i, 0) >>
       IN /\ written' = IF raised THEN written
                        ELSE Append(written, [i |-> w_i, path |-> path,
                                              exists |-> exists,
                                              made |-> output_dir(filepath, w_settings)])
          /\ successful' = SuccessfulAfter(successful, raised)
          /\ failed' = FailedAfter(failed, raised)
          /\ update_progress(queue \o lines, prog)
          /\ posted_progress' = Append(posted_progress, prog)
          /\ w_i' = NextIndex(w_i, raised)
    /\ w_pc' = "check"
    /\ UNCHANGED << envVars, callVars, file_list, file_listbox, opts, is_converting, cancel_requested,
                    converter, convert_selected_btn, convert_all_btn, cancel_btn,
                    status_label, w_files, w_settings, run_log, checks, calls,
                    cancel_pt, start_ignored, workers >>

\* A worker that also clears the cancellation flag when it is done.
FinallyFlags_ClearsCancel ==
    /\ is_converting' = FALSE
    /\ cancel_requested' = FALSE

\* Line 657: the worker clears is_converting; it leaves cancel_requested.
FinallyFlags ==
    /\ is_converting' = FALSE
    /\ UNCHANGED cancel_requested

\* Line 657.
W_Finally ==
    /\ w_pc = "finally"
    /\ FinallyFlags
    /\ w_pc' = "post"
    /\ UNCHANGED << envVars, callVars, file_list, file_listbox, opts, converter,
                    convert_selected_btn, convert_all_btn, cancel_btn,
                    progress_var, status_label, queue, w_files, w_settings, w_i,
                    successful, failed, histVars >>

\* Line 658; the thread ends.
W_Post ==
    /\ w_pc = "post"
    /\ queue' = Append(queue, Msg("finished", "conversion_finished", 0, 0))
    /\ w_pc' = "none"
    /\ workers' = workers - 1
    /\ UNCHANGED << envVars, callVars, uiVars, w_files, w_settings, w_i, successful, failed,
                    run_log, checks, calls, written, posted_progress, cancel_pt,
                    start_ignored >>

\* conversion_worker (lines 566-658).
conversion_worker ==
    \/ \E raised \in BOOLEAN : W_Begin(raised)
    \/ W_Check
    \/ \E site \in RaiseSites \cup { "none" }, exists \in BOOLEAN, ts \in 1..MaxClock :
          W_FileDone(site, exists, ts)
    \/ W_Finally
    \/ W_Post

\* ------------------------------------------------------------------ specification
\* What curselection can answer: any rows of the listbox (selectmode EXTENDED).
Selections == SUBSET (1..Len(file_listbox)) \ { {} }

UserFiles ==
    \E files \in FileBatches : add_files(files)

UserOptions ==
    \/ \E v \in OutputFormats : set_output_format(v)
    \/ \E d \in OutputDirs : browse_output_dir(d)
    \/ toggle_create_subfolder
    \/ toggle_overwrite_files
    \/ reset_options

UserRun ==
    \/ convert_all
    \/ \E sel \in Selections : convert_selected(sel)
    \/ cancel_conversion

Next ==
    \/ UserFiles
    \/ UserRun
    \/ Dispatch
    \/ conversion_worker

Spec == Init /\ [][Next]_vars

\* The worker thread is scheduled and every call it makes returns; the Tk
\* main loop runs every callback posted to it.
LiveSpec == Spec /\ WF_vars(conversion_worker) /\ WF_vars(Dispatch)

\* The same program with the option widgets in use and a single way to start.
NextOpts ==
    \/ UserFiles
    \/ UserOptions
    \/ convert_all
    \/ Dispatch
    \/ conversion_worker

SpecOpts == Init /\ [][NextOpts]_vars

\* The file panel on its own: every file handler, with the callbacks they
\* post, and no run.
UserFileList ==
    \/ \E files \in DialogAnswers : add_files(files)
    \/ \E walk \in FolderWalks : add_folder(walk)
    \/ \E items \in Drops : on_drop(items)
    \/ \E sel \in Selections : remove_selected(sel)
    \/ clear_files

NextList ==
    \/ UserFileList
    \/ Dispatch

SpecList == Init /\ [][NextList]_vars

\* Runs with the file list edited while they go on: files are added from the
\* dialog or dropped, removed and cleared; the engine builds, each file
\* converts or raises in convert, and no output path exists yet.
UserEdits ==
    \/ UserFiles
    \/ \E items \in RunDrops : on_drop(items)
    \/ \E sel \in Selections : remove_selected(sel)
    \/ clear_files

QuietWorker ==
    \/ W_Begin(FALSE)
    \/ W_Check
    \/ \E site \in { "none", "convert" } : W_FileDone(site, FALSE, 1)
    \/ W_Finally
    \/ W_Post

NextFiles ==
    \/ UserEdits
    \/ convert_all
    \/ \E sel \in Selections : convert_selected(sel)
    \/ Dispatch
    \/ QuietWorker

SpecFiles == Init /\ [][NextFiles]_vars

\* ------------------------------------------------------------------ the builder called directly
\* The keys build_pipeline_options and build_converter read.
BuilderKeys ==
    { "pipeline_type", "enable_ocr", "do_table_structure",
      "do_picture_classification", "do_picture_description",
      "generate_page_images", "generate_picture_images", "generate_table_images",
      "do_formula_enrichment", "do_code_enrichment", "table_mode",
      "do_cell_matching", "ocr_engine", "ocr_language", "force_full_page_ocr",
      "ocr_confidence", "device", "num_threads", "use_flash_attention",
      "images_scale", "document_timeout" }

\* The record get_current_settings builds from the initial option variables,
\* and one in which every key the builder reads has another value.
ChangedOptions ==
    [ pipeline_type             |-> "Standard",
      enable_ocr                |-> FALSE,
      do_table_structure        |-> FALSE,
      generate_picture_images   |-> TRUE,
      do_formula_enrichment     |-> FALSE,
      do_code_enrichment        |-> FALSE,
      do_picture_classification |-> FALSE,
      do_picture_description    |-> TRUE,
      ocr_engine                |-> "EasyOCR",
      ocr_language              |-> "de",
      force_full_page_ocr       |-> TRUE,
      ocr_confidence            |-> 8,
      table_mode                |-> "Fast",
      do_cell_matching          |-> FALSE,
      document_timeout          |-> 30,
      generate_page_images      |-> TRUE,
      generate_table_images     |-> TRUE,
      images_scale              |-> 20,
      device                    |-> "cuda",
      num_threads               |-> 8,
      use_flash_attention       |-> TRUE ]

BaseSettings == { [k \in BuilderKeys |-> DefaultOptions[k]], ChangedOptions }

OcrEngines == { "EasyOCR", "RapidOCR", "Auto", "OcrMac", "Tesseract" }
PipelineTypes == { "Standard", "VLM", "ASR", "Custom" }

\* The keys a caller leaves out: any of the OCR, device, table and timeout
\* keys together, any single key, or all of them.
ProbeKeys ==
    { "enable_ocr", "ocr_engine", "ocr_language", "force_full_page_ocr",
      "ocr_confidence", "device", "table_mode", "document_timeout" }
MissingSets ==
    (SUBSET ProbeKeys) \cup { { k } : k \in BuilderKeys } \cup { BuilderKeys }

Without(s, missing) == [k \in (DOMAIN s) \ missing |-> s[k]]

\* Calls with keys left out, on an engine with every optional field.
InitMissing ==
    /\ DOCLING_AVAILABLE = TRUE
    /\ VLM_AVAILABLE = TRUE
    /\ ASR_AVAILABLE = TRUE
    /\ OCR_OPTIONS_AVAILABLE \in BOOLEAN
    /\ OCRMAC_AVAILABLE \in BOOLEAN
    /\ DECLARED = OptionalFields
    /\ STRICT_ATTRS = TRUE
    /\ \E base \in BaseSettings, e \in BOOLEAN, engine \in OcrEngines,
          missing \in MissingSets :
          arg_settings = Without([base EXCEPT !.enable_ocr = e,
                                              !.ocr_engine = engine], missing)

\* Calls on engines whose schema declares any part of the optional fields.
InitSchemas ==
    /\ DOCLING_AVAILABLE = TRUE
    /\ VLM_AVAILABLE = TRUE
    /\ ASR_AVAILABLE = TRUE
    /\ OCR_OPTIONS_AVAILABLE \in BOOLEAN
    /\ OCRMAC_AVAILABLE = FALSE
    /\ DECLARED \in SUBSET OptionalFields
    /\ STRICT_ATTRS \in BOOLEAN
    /\ \E base \in BaseSettings, e \in BOOLEAN :
          arg_settings = [base EXCEPT !.enable_ocr = e]

\* Calls for every pipeline type on engines with and without each part.
InitKinds ==
    /\ DOCLING_AVAILABLE \in BOOLEAN
    /\ VLM_AVAILABLE \in BOOLEAN
    /\ ASR_AVAILABLE \in BOOLEAN
    /\ OCR_OPTIONS_AVAILABLE = TRUE
    /\ OCRMAC_AVAILABLE = FALSE
    /\ DECLARED \in { OptionalFields, OptionalFields \ { "ocr_options" } }
    /\ STRICT_ATTRS \in BOOLEAN
    /\ \E base \in BaseSettings, t \in PipelineTypes, missing \in { {}, { "pipeline_type" } } :
          arg_settings = Without([base EXCEPT !.pipeline_type = t,
                                              !.enable_ocr = TRUE], missing)

InitBuild ==
    /\ InitMissing \/ InitSchemas \/ InitKinds
    /\ ret_options = NotCalled
    /\ ret_converter = NotBuilt
    /\ NotExported
    /\ Constructed

\* A caller calls build_pipeline_options(arg_settings).
call_build_pipeline_options ==
    /\ ret_options = NotCalled
    /\ ret_options' = build_pipeline_options(arg_settings)
    /\ UNCHANGED << envVars, arg_settings, ret_converter, arg_doc, arg_format,
                    ret_content, uiVars, queue, wVars, histVars >>

\* A caller calls build_converter(arg_settings).
call_build_converter ==
    /\ ret_converter = NotBuilt
    /\ ret_converter' = build_converter(arg_settings)
    /\ UNCHANGED << envVars, arg_settings, ret_options, arg_doc, arg_format,
                    ret_content, uiVars, queue, wVars, histVars >>

NextBuild ==
    \/ call_build_pipeline_options
    \/ call_build_converter

SpecBuild == InitBuild /\ [][NextBuild]_vars

\* ------------------------------------------------------------------ files with one base name
\* The path of line 616 for the file at hand, before the collision test.
UnstampedPath == output_path(FileAt(w_i), w_settings, FALSE, 1)

\* That path is known to exist: an earlier file of the run found it there
\* or wrote it.
KnownToExist ==
    \E j \in 1..Len(written) :
        [ written[j].path EXCEPT !.stamp = << >> ] = UnstampedPath

\* The worker in an output directory nobody else writes to or deletes from
\* during the run: os.path.exists answers for files that were there before
\* the run as it likes, and true for a path known to exist.  The write of a
\* file may fail.
PrivateDirWorker ==
    \/ W_Begin(FALSE)
    \/ W_Check
    \/ \E site \in { "none", "write" }, exists \in BOOLEAN, ts \in 1..MaxClock :
          /\ w_pc = "converting"
          /\ KnownToExist => exists
          /\ W_FileDone(site, exists, ts)
    \/ W_Finally
    \/ W_Post

NextSame ==
    \/ \E files \in SameStemBatches : add_files(files)
    \/ convert_all
    \/ \E sel \in Selections : convert_selected(sel)
    \/ Dispatch
    \/ PrivateDirWorker

SpecSame == Init /\ [][NextSame]_vars

\* ------------------------------------------------------------------ every option widget in use
\* The option variables that have a widget (max_file_size_mb has none).
WidgetKeys == (DOMAIN DefaultOptions) \ { "max_file_size_mb" }

\* A value other than the initial one for each of them.
AllChanged ==
    [ pipeline_type    |-> "VLM",
      vlm_model        |-> "smoldocling",
      output_format    |-> "JSON",
      max_pages        |-> 5,
      output_directory |-> "out",
      create_subfolder |-> TRUE,
      overwrite_files  |-> TRUE ] @@ ChangedOptions

Edited(o) == { key \in DOMAIN o : o[key] # DefaultOptions[key] }

\* An option widget sets its Tk variable (gui_panels.py): the variable goes
\* to the other value, or back to the initial one.
set_option(key) ==
    LET after == [opts EXCEPT ![key] = IF opts[key] = DefaultOptions[key]
                                       THEN AllChanged[key]
                                       ELSE DefaultOptions[key]]
    IN  /\ Cardinality(Edited(after)) <= MaxEdited
        /\ opts' = after
        /\ UNCHANGED << envVars, callVars, file_list, file_listbox, is_converting,
                        cancel_requested, converter, convert_selected_btn,
                        convert_all_btn, cancel_btn, progress_var, status_label,
                        queue, wVars, histVars >>

\* The worker on an engine that builds and converts every file, with no
\* output path taken yet.
SmoothWorker ==
    \/ W_Begin(FALSE)
    \/ W_Check
    \/ W_FileDone("none", FALSE, 1)
    \/ W_Finally
    \/ W_Post

NextReset ==
    \/ \E key \in WidgetKeys : set_option(key)
    \/ reset_options
    \/ UserFiles
    \/ convert_all
    \/ Dispatch
    \/ SmoothWorker

SpecReset == Init /\ [][NextReset]_vars

\* ------------------------------------------------------------------ export_content called directly
\* The engine is installed and a conversion has returned a result whose
\* document has any of the markdown texts, with or without DocTags support.
InitExport ==
    /\ DOCLING_AVAILABLE = TRUE
    /\ VLM_AVAILABLE = TRUE
    /\ ASR_AVAILABLE = TRUE
    /\ OCR_OPTIONS_AVAILABLE = TRUE
    /\ OCRMAC_AVAILABLE = FALSE
    /\ DECLARED = OptionalFields
    /\ STRICT_ATTRS = TRUE
    /\ arg_settings = DefaultOptions
    /\ ret_options = NotCalled
    /\ ret_converter = NotBuilt
    /\ \E pieces \in PieceSeqs, has_doctags \in BOOLEAN, format_name \in ExportFormats :
          /\ arg_doc = Document(MarkdownOf(pieces), has_doctags)
          /\ arg_format = format_name
    /\ ret_content = NotCalled
    /\ Constructed

\* A caller calls export_content(result, arg_format).
call_export_content ==
    /\ ret_content = NotCalled
    /\ ret_content' = [ kind |-> "str", value |-> export_content(arg_doc, arg_format) ]
    /\ UNCHANGED << envVars, arg_settings, ret_options, ret_converter, arg_doc,
                    arg_format, uiVars, queue, wVars, histVars >>

NextExport == call_export_content

SpecExport == InitExport /\ [][NextExport]_vars

\* ------------------------------------------------------------------ properties
\* The log lines of the current run: those already in log_text, then those
\* still waiting in the event queue.
IsLog(m) == m.cb = "log"
RunLines == run_log \o SelectSeq(queue, IsLog)

Count(seq, text) == Cardinality({ k \in 1..Len(seq) : seq[k].text = text })
CountAt(seq, text, x) ==
    Cardinality({ k \in 1..Len(seq) : seq[k].text = text /\ seq[k].x = x })

InListOrder(seq) == \A j \in 1..Len(seq) : seq[j] = j - 1
Processed == successful + failed
LeftLoop == w_pc \in { "finally", "post", "none" }
CancelRead == \E j \in 1..Len(checks) : checks[j].flag
BuildRaised == Count(RunLines, "Conversion error") > 0

\* C1: within one run the files are converted one at a time and in list
\* order: the calls made so far are files 0, 1, 2, ... each exactly once (so
\* no file is called twice and a failed file is not retried), and a call
\* begins only when every earlier file has been counted as success or failure.
C1_Sequential ==
    /\ InListOrder(calls)
    /\ Len(calls) <= Len(w_files)
    /\ Processed = IF w_pc = "converting" THEN Len(calls) - 1 ELSE Len(calls)

\* C1 witness: a two-file run whose first file failed and whose second file
\* was nevertheless called and counted.
C1_Witness ==
    /\ calls = << 0, 1 >>
    /\ Len(written) = 1 /\ written[1].i = 1
    /\ failed = 1 /\ successful = 1

\* C3: when Cancel is requested between files, after file k was counted
\* (1 <= k < N), exactly k files are processed: k conversion calls, k counted,
\* a summary whose counts sum to k, and no output for the other N - k files.
C3_CancelAfterK ==
    (cancel_pt.pc = "check" /\ cancel_pt.done >= 1 /\ cancel_pt.done < Len(w_files))
    => /\ Len(calls) = cancel_pt.done
       /\ Processed = cancel_pt.done
       /\ \A j \in 1..Len(written) : written[j].i < cancel_pt.done
       /\ \A a, b \in 1..Len(RunLines) :
            (RunLines[a].text = "Successful" /\ RunLines[b].text = "Failed")
            => RunLines[a].x + RunLines[b].x = cancel_pt.done

\* C3 witness: a two-file run cancelled after its first file, ended, with the
\* summary in the log.
C3_Witness ==
    /\ w_pc = "none" /\ Len(w_files) = 2
    /\ cancel_pt.pc = "check" /\ cancel_pt.done = 1
    /\ Count(run_log, "Successful") = 1
    /\ Processed = 1

\* C4 (state part): the flag is read once per file, in list order, before
\* that file's call; a call follows exactly the reads that found the flag
\* clear; a read that finds it set is the last read of the run and no call
\* follows it.
C4_OneReadPerFile ==
    /\ \A j \in 1..Len(checks) : checks[j].i = j - 1
    /\ Len(checks) <= Len(w_files)
    /\ \A j \in 1..Len(checks) : checks[j].flag => (j = Len(checks) /\ LeftLoop)
    /\ Len(calls) = Cardinality({ j \in 1..Len(checks) : ~checks[j].flag })

\* C4 (step part): a call in flight is never interrupted: every step taken
\* while a file is being converted either leaves it in flight with the
\* counters untouched, or counts exactly that file.
C4_NeverInterrupted ==
    (w_pc = "converting")
    => \/ (w_pc' = "converting" /\ UNCHANGED << successful, failed, w_i, calls >>)
       \/ (w_pc' = "check" /\ successful' + failed' = Processed + 1
             /\ w_i' = w_i + 1)

\* C4: cancellation is cooperative (both parts above).
C4_Cooperative == [](C4_OneReadPerFile) /\ [][C4_NeverInterrupted]_vars

\* C4 witness: Cancel was clicked while file 0 was in flight; file 0 was
\* still saved and counted, and the next read of the flag ended the run.
C4_Witness ==
    /\ cancel_pt.pc = "converting" /\ cancel_pt.done = 0
    /\ successful = 1 /\ Len(written) = 1
    /\ Len(checks) = 2 /\ checks[2].flag
    /\ Len(calls) = 1

\* The files whose call raised: called, not in flight, nothing written.
Failures ==
    ({ calls[j] : j \in 1..Len(calls) } \ { written[j].i : j \in 1..Len(written) })
      \ (IF w_pc = "converting" THEN { w_i } ELSE {})

\* C5: every file whose conversion, export or write raised is one failure:
\* failed counts exactly those files, each has exactly one ERROR line, no
\* other file has one, and the batch goes on: a run that was neither
\* cancelled nor stopped by an escaped exception calls all its files.
C5_PerFileFailure ==
    /\ failed = Cardinality(Failures)
    /\ successful = Len(written)
    /\ \A k \in 0..MaxFiles :
         CountAt(RunLines, "ERROR", k) = IF k \in Failures THEN 1 ELSE 0
    /\ (LeftLoop /\ ~CancelRead /\ ~BuildRaised) => Len(calls) = Len(w_files)

\* C5 witness: file 0 failed, the worker went on, file 1 was saved.
C5_Witness ==
    /\ Failures = { 0 }
    /\ CountAt(run_log, "ERROR", 0) = 1
    /\ CountAt(run_log, "Saved", 1) = 1
    /\ LeftLoop

\* The progress callbacks still waiting in the event queue.
IsProgress(m) == m.cb = "progress"
QueuedProgress == SelectSeq(queue, IsProgress)

\* C6: one progress value is reported per processed file, success or
\* failure; the j-th value is j / N x 100; the values of a run increase
\* strictly; 100 is among them exactly when all N files were processed.
C6_Progress ==
    LET pp == posted_progress
        n  == Len(w_files)
        q  == QueuedProgress
    IN  /\ Len(pp) = Processed
        /\ \A j \in 1..Len(pp) : pp[j].num * n = j * 100 * pp[j].den
        /\ \A j, k \in 1..Len(pp) :
             j < k => pp[j].num * pp[k].den < pp[k].num * pp[j].den
        /\ (\E j \in 1..Len(pp) : pp[j].num = 100 * pp[j].den)
             <=> (n > 0 /\ Processed = n)
        /\ Len(q) <= Len(pp)
        /\ \A j \in 1..Len(q) :
             LET v == pp[Len(pp) - Len(q) + j]
             IN  q[j].x = v.num /\ q[j].y = v.den

\* C6 witness: a two-file run with a failure, both values reported, 100 on
\* display.
C6_Witness ==
    /\ Len(posted_progress) = 2
    /\ failed >= 1
    /\ posted_progress[1].num * 2 = posted_progress[1].den * 100
    /\ progress_var.num = 100 * progress_var.den

\* A click on either Convert button.
ConvertRequest ==
    \/ convert_all
    \/ \E sel \in Selections : convert_selected(sel)

\* C2 (step part): a start request made while a run is in progress changes
\* neither the flags, the captured settings, the buttons nor the worker.
C2_StartIgnored ==
    (is_converting /\ ConvertRequest)
    => UNCHANGED << is_converting, cancel_requested, w_settings, w_files, w_pc,
                    convert_selected_btn, convert_all_btn, cancel_btn, workers >>

\* C2: at most one worker thread is alive at any time, and a start request
\* made during a run is ignored.
C2_SingleRun == [](workers <= 1) /\ [][C2_StartIgnored]_vars

\* C2 witness: a Convert click arrived while a file was being converted and
\* was ignored.
C2_Witness ==
    /\ start_ignored /\ is_converting
    /\ w_pc = "converting"
    /\ workers = 1

Restored ==
    /\ ~is_converting
    /\ convert_selected_btn = NORMAL
    /\ convert_all_btn = NORMAL
    /\ cancel_btn = DISABLED

\* C7: every started run eventually has is_converting cleared, the Convert
\* buttons enabled and Cancel disabled, whether it completed, was cancelled
\* or was ended by an exception that escaped the per-file handler; and when
\* the controls are restored no "Conversion error" line is still waiting,
\* so the error was logged first.
C7_AlwaysRestored ==
    /\ is_converting ~> Restored
    /\ [](convert_all_btn = NORMAL
            => Count(SelectSeq(queue, IsLog), "Conversion error") = 0)

\* C7 witness: build_converter raised, the error is in the log and the
\* controls are back.
C7_Witness ==
    /\ Restored
    /\ Count(run_log, "Conversion error") = 1
    /\ w_pc = "none"

SummaryHead == "=== Conversion Complete ==="

\* A started run has ended and its controls are restored.
RunOver == w_files # << >> /\ w_pc = "none" /\ convert_all_btn = NORMAL

SummarySumsToCalls ==
    \A a, b \in 1..Len(RunLines) :
        (RunLines[a].text = "Successful" /\ RunLines[b].text = "Failed")
        => RunLines[a].x + RunLines[b].x = Len(calls)

SummaryAtEnd ==
    /\ Count(RunLines, SummaryHead) <= 1
    /\ Count(RunLines, SummaryHead) = 1 => LeftLoop
    /\ SummarySumsToCalls
    /\ convert_all_btn = NORMAL => Count(SelectSeq(queue, IsLog), SummaryHead) = 0

\* C8 as stated: every started run has, once its controls are restored,
\* exactly one summary in the log, whose counts sum to the number of calls.
C8_EveryRunSummary ==
    /\ SummaryAtEnd
    /\ RunOver => Count(run_log, SummaryHead) = 1

\* C8 amended: a run emits at most one summary, after its loop and before
\* the controls are restored, with counts that sum to the number of calls;
\* it emits exactly one unless an exception escaped the per-file handler, in
\* which case it emits none.
C8_SummaryUnlessEscaped ==
    /\ SummaryAtEnd
    /\ RunOver => Count(run_log, SummaryHead) = IF BuildRaised THEN 0 ELSE 1

\* C8 witness: a two-file run with one failure, ended, its single summary in
\* the log.
C8_Witness ==
    /\ RunOver /\ ~BuildRaised
    /\ Count(run_log, SummaryHead) = 1
    /\ Len(calls) = 2 /\ failed = 1 /\ successful = 1

\* The run state of section 4.2.  While is_converting is set the run is
\* Running or, once Cancel was requested, Cancelling; between the worker
\* clearing is_converting and conversion_finished restoring the controls it
\* is Cancelling if Cancel was requested while is_converting was set and
\* Completed otherwise; with the controls restored it is Idle.
RunState ==
    IF is_converting
    THEN IF cancel_requested THEN "Cancelling" ELSE "Running"
    ELSE IF convert_all_btn = DISABLED
         THEN IF cancel_pt.live THEN "Cancelling" ELSE "Completed"
         ELSE "Idle"

RunEdges ==
    { << "Idle", "Running" >>, << "Running", "Cancelling" >>,
      << "Running", "Completed" >>, << "Cancelling", "Idle" >>,
      << "Completed", "Idle" >> }

C9_Step ==
    /\ RunState' = RunState \/ << RunState, RunState' >> \in RunEdges
    /\ (RunState' = "Running" /\ RunState # "Running")
         => (ConvertRequest /\ workers' = workers + 1)
    /\ (RunState' = "Cancelling" /\ RunState # "Cancelling") => cancel_conversion

C10_Step ==
    /\ (w_pc = "none" /\ w_pc' # "none") => w_settings' = opts
    /\ (w_pc # "none") => w_settings' = w_settings

\* C10 (state part): every file written in the run went to the directory,
\* subfolder, extension and overwrite policy of the captured record,
\* whatever the option variables held when it was written.
C10_Paths ==
    \A j \in 1..Len(written) :
        LET f == w_files[written[j].i + 1]
            p == written[j].path
        IN  /\ p.dir = w_settings.output_directory
            /\ p.sub = IF w_settings.create_subfolder THEN f.stem ELSE ""
            /\ p.ext = IF w_settings.output_format = "JSON" THEN ".json" ELSE ".md"
            /\ w_settings.overwrite_files => p.stamp = << >>
            /\ p.stem = f.stem

\* C10: the settings record is captured once at start_conversion and option
\* changes made during the run (reset_options included) do not reach it.
C10_SettingsFrozen == [](C10_Paths) /\ [][C10_Step]_vars

\* C10 witness: after the first file of a run was written, with the second
\* in flight, the option variables differ from the captured record in every
\* one of the four settings (so they were changed during the run).
C10_Witness ==
    /\ w_pc = "converting" /\ w_i = 1
    /\ Len(written) = 1
    /\ opts.output_format # w_settings.output_format
    /\ opts.output_directory # w_settings.output_directory
    /\ opts.create_subfolder # w_settings.create_subfolder
    /\ opts.overwrite_files # w_settings.overwrite_files
    /\ w_settings # DefaultOptions

\* C11 (state part): the files called are those of the list handed over at
\* the start, in its order, and every output comes from the file at its
\* index in that list; a run that leaves its loop has called them all.
C11_FromSnapshot ==
    /\ InListOrder(calls)
    /\ Len(calls) <= Len(w_files)
    /\ \A j \in 1..Len(written) :
         /\ written[j].i < Len(w_files)
         /\ written[j].path.stem = w_files[written[j].i + 1].stem
    /\ (LeftLoop /\ w_pc # "none" /\ ~BuildRaised) => Len(calls) = Len(w_files)

\* C11 (step part): the list handed over is the file list, or the selected
\* part of it, as it is when the run starts, and no step changes it, file
\* list edits included, while the worker lives.
C11_Step ==
    /\ (w_pc = "none" /\ w_pc' # "none")
         => \E sel \in Selections : w_files' = SelectAt(file_list, sel, 1)
    /\ (w_pc # "none") => w_files' = w_files

\* C11: the worker operates on a snapshot of the file list taken at the
\* start: adding, dropping, removing and clearing files during a run changes
\* neither the set nor the order of the files the run processes.
C11_Snapshot == [](C11_FromSnapshot) /\ [][C11_Step]_vars

\* C11 witness: a run was started on at least two files; while its second
\* file is in flight the file list holds only a file dropped since (so the
\* files of the run were removed and another one dropped during the run), and
\* the first output is that of the run's first file.
C11_Witness ==
    /\ w_pc = "converting" /\ w_i = 1
    /\ Len(w_files) >= 2
    /\ Len(written) = 1 /\ written[1].path.stem = w_files[1].stem
    /\ file_list = << PathOf(MaxFiles + 1) >>

\* Every path a file handler can be offered here.
OfferedPaths ==
    UNION ({ Range(a) : a \in DialogAnswers \cup FolderWalks }
           \cup { Range(DropPaths(d)) : d \in Drops })

NoDuplicates(list) ==
    \A j, k \in 1..Len(list) : j # k => list[j] # list[k]

\* C12: after any sequence of add_files, add_folder, on_drop, remove_selected
\* and clear_files the file list holds no path twice and only paths whose
\* lower-cased extension is supported; offering a path that is in the list
\* already, or an unsupported one, leaves the list as it is.
C12_ListInvariant ==
    /\ NoDuplicates(file_list)
    /\ \A j \in 1..Len(file_list) : Lower(file_list[j].ext) \in SUPPORTED_EXTENSIONS
    /\ \A p \in OfferedPaths :
         (p \in Range(file_list) \/ Lower(p.ext) \notin SUPPORTED_EXTENSIONS)
         => add_file_to_list(file_list, p) = file_list

\* C12 witness: a pick of an upper-case .PDF and a .txt left the first in
\* the list and the second out, with its "Unsupported" line on the way; the
\* list is full, so a path was offered again or removed on the way here.
C12_Witness ==
    /\ PathExt(2, ".PDF") \in Range(file_list)
    /\ PathExt(3, ".txt") \notin Range(file_list)
    /\ \E j \in 1..Len(queue) : queue[j].text = "Unsupported file type"
    /\ Len(file_list) = MaxFiles

\* The characters of a YYYYMMDD_HHMMSS timestamp: eight digits, "_", six.
IsStamp(t) ==
    /\ Len(t) = 15
    /\ t[9] = "_"
    /\ \A k \in (1..15) \ { 9 } : t[k] \in 0..9
    /\ 10 * t[5] + t[6] \in 1..12
    /\ 10 * t[7] + t[8] \in 1..31
    /\ 10 * t[10] + t[11] \in 0..23
    /\ 10 * t[12] + t[13] \in 0..59
    /\ 10 * t[14] + t[15] \in 0..59

\* C13: a file whose computed output path exists, converted with overwrite
\* off, is a success written to another path: the same directory, base name
\* and extension with a YYYYMMDD_HHMMSS timestamp between base name and
\* extension; with overwrite on, or when the path does not exist, the
\* computed path itself is used.
C13_TimestampOnCollision ==
    /\ successful = Len(written)
    /\ \A j \in 1..Len(written) :
         LET f    == w_files[written[j].i + 1]
             p    == written[j].path
             orig == [ dir   |-> w_settings.output_directory,
                       sub   |-> IF w_settings.create_subfolder THEN f.stem ELSE "",
                       stem  |-> f.stem,
                       stamp |-> << >>,
                       ext   |-> get_output_extension(w_settings.output_format) ]
         IN  IF written[j].exists /\ ~w_settings.overwrite_files
             THEN /\ p # orig
                  /\ IsStamp(p.stamp)
                  /\ [p EXCEPT !.stamp = << >>] = orig
             ELSE p = orig

\* C13 witness: in one run the first output path existed and got the
\* timestamp, the second did not exist and was used as computed; both files
\* count as successes.
C13_Witness ==
    /\ Len(written) = 2 /\ successful = 2 /\ failed = 0
    /\ written[1].exists /\ written[1].path.stamp # << >>
    /\ ~written[2].exists /\ written[2].path.stamp = << >>
    /\ ~w_settings.overwrite_files

\* A step of the worker thread: its position changes.
WorkerStep == w_pc # "none" /\ w_pc' # w_pc

\* What the worker posted in this step.
Posted == SubSeq(queue', Len(queue) + 1, Len(queue'))

\* C14 (worker side): a worker step leaves the progress variable, the status
\* label, the log and the buttons as they are and only appends to the event
\* queue; the step that finishes a file posts its log line (and the preview
\* of a saved file) and, last, its progress value; the step that begins a
\* file posts its status and log line; the last step posts
\* conversion_finished.
C14_WorkerPosts ==
    WorkerStep
    => /\ UNCHANGED << progress_var, status_label, run_log,
                       convert_selected_btn, convert_all_btn, cancel_btn >>
       /\ Len(queue') >= Len(queue)
       /\ SubSeq(queue', 1, Len(queue)) = queue
       /\ (w_pc = "converting")
            => /\ Posted # << >>
               /\ LET m == Posted[Len(Posted)]
                       v == posted_progress'[Len(posted_progress')]
                   IN  m.cb = "progress" /\ m.x = v.num /\ m.y = v.den
               /\ Posted[1].cb = "log" /\ Posted[1].x = w_i
               /\ (successful' > successful)
                    => (Len(Posted) = 3 /\ Posted[2].cb = "preview")
       /\ (w_pc = "check" /\ w_pc' = "converting")
            => (Len(Posted) = 2 /\ Posted[1].cb = "status" /\ Posted[2].cb = "log")
       /\ (w_pc = "post")
            => (Len(Posted) = 1 /\ Posted[1].cb = "finished")

\* C14 (interactive side): the progress variable, the status label and the
\* log change, and the Convert buttons come back, only when the callback at
\* the head of the event queue is run, and then to what that callback
\* carries (the log is emptied here when a run starts).
C14_AppliedFromQueue ==
    /\ progress_var' # progress_var
         => /\ queue # << >> /\ Head(queue).cb = "progress"
            /\ progress_var' = [num |-> Head(queue).x, den |-> Head(queue).y]
            /\ queue' = Tail(queue)
    /\ status_label' # status_label
         => /\ queue # << >> /\ Head(queue).cb = "status"
            /\ status_label' = Head(queue).text
            /\ queue' = Tail(queue)
    /\ (run_log' # run_log /\ run_log' # << >>)
         => /\ queue # << >> /\ Head(queue).cb = "log"
            /\ run_log' = Append(run_log, Head(queue))
            /\ queue' = Tail(queue)
    /\ (convert_all_btn = DISABLED /\ convert_all_btn' = NORMAL)
         => /\ queue # << >> /\ Head(queue).cb = "finished"
            /\ w_pc = "none"

\* C14: every UI-visible change the worker produces is posted to the event
\* queue and applied by the interactive thread; the worker changes no widget
\* or UI variable itself.
C14_Marshalled == [][C14_WorkerPosts /\ C14_AppliedFromQueue]_vars

\* C14 witness: the worker thread has ended after two files; its first
\* progress value is on display, the second still waits in the event queue
\* with conversion_finished behind it, and the buttons are still disabled.
C14_Witness ==
    /\ w_pc = "none"
    /\ Len(posted_progress) = 2
    /\ progress_var = posted_progress[1]
    /\ Len(QueuedProgress) = 1
    /\ queue[Len(queue)].cb = "finished"
    /\ convert_all_btn = DISABLED
    /\ run_log # << >>

\* A step of the interactive thread: a handler or a callback from the event
\* queue.  The step that starts a run also creates the worker thread, whose
\* locals start afresh.
InteractiveStep == ~WorkerStep
ThreadCreated == w_pc = "none" /\ w_pc' = "begin"

\* Writers of the cancellation flag, the converter and the iteration state:
\* the worker never writes the flag, and once the thread exists the
\* interactive thread never writes the converter, the index or the counters.
C15_Ownership ==
    /\ WorkerStep => cancel_requested' = cancel_requested
    /\ (InteractiveStep /\ ~ThreadCreated)
         => UNCHANGED << converter, w_i, successful, failed, w_files, w_settings >>
    /\ InteractiveStep => converter' = converter

\* C15 as stated: the cancellation flag is the only variable written by one
\* thread and read or written by the other; in particular is_converting,
\* which start_conversion reads and writes on the interactive thread, is not
\* written by the worker.
C15_OnlyCancelShared ==
    [][C15_Ownership /\ (WorkerStep => is_converting' = is_converting)]_vars

\* C15 amended: two flags are shared.  cancel_requested is written by the
\* interactive thread only and read by the worker; is_converting is set by
\* the interactive thread when a run starts, read there by start_conversion,
\* and cleared by the worker in its finally clause, its only write to it;
\* the converter and the iteration state are the worker's alone.
C15_TwoFlagsShared ==
    [][ /\ C15_Ownership
        /\ (WorkerStep /\ is_converting' # is_converting)
             => (w_pc = "finally" /\ is_converting /\ ~is_converting')
        /\ (InteractiveStep /\ is_converting' # is_converting)
             => (ThreadCreated /\ ~is_converting /\ is_converting') ]_vars

\* C15 witness: the interactive thread set the cancellation flag, the worker
\* read it set and left its loop, and the worker has cleared is_converting
\* while the flag is as the interactive thread left it.
C15_Witness ==
    /\ w_pc = "post"
    /\ ~is_converting
    /\ cancel_requested /\ CancelRead
    /\ converter # None

\* The settings records the builder is asked about when the engine is absent.
SomeSettings ==
    BaseSettings \cup { get_current_settings, Without(ChangedOptions, BuilderKeys) }

\* C16 (step part): with the engine unavailable a click on a Convert button
\* changes neither is_converting, the cancellation flag, the buttons nor the
\* worker.
C16_NoStart ==
    (~DOCLING_AVAILABLE /\ ConvertRequest)
    => UNCHANGED << is_converting, cancel_requested, convert_selected_btn,
                    convert_all_btn, cancel_btn, w_pc, workers, queue >>

\* C16: when the engine is unavailable build_pipeline_options returns None
\* and build_converter returns no converter and the label "unavailable", for
\* any settings; and conversion is disabled: no worker is ever started, and
\* is_converting, the cancellation flag and the buttons stay as constructed.
C16_Unavailable ==
    /\ [](~DOCLING_AVAILABLE
            => /\ \A s \in SomeSettings :
                    /\ build_pipeline_options(s) = None
                    /\ build_converter(s).converter = None
                    /\ build_converter(s).pipeline_name = "unavailable"
                    /\ ~build_converter(s).raised
               /\ workers = 0 /\ w_pc = "none"
               /\ ~is_converting /\ ~cancel_requested
               /\ convert_selected_btn = NORMAL /\ convert_all_btn = NORMAL
               /\ cancel_btn = DISABLED
               /\ converter = None)
    /\ [][C16_NoStart]_vars

\* C16 witness: with the engine unavailable and files in the list a Convert
\* button was clicked and the request was refused.
C16_Witness ==
    /\ ~DOCLING_AVAILABLE
    /\ file_list # << >>
    /\ start_ignored
    /\ workers = 0 /\ ~is_converting

\* The defaults a key can be said to have: the initial option value, which
\* the builder's comment says its defaults match (conversion_utils.py line
\* 130), or a default written in one of the builder's settings.get calls,
\* where that is another value.  One record per choice of one default per key.
DocumentedDefaults ==
    { [ [k \in BuilderKeys |-> DefaultOptions[k]]
          EXCEPT !.enable_ocr = e, !.force_full_page_ocr = f,
                 !.ocr_confidence = c, !.device = d ] :
        e \in BOOLEAN, f \in BOOLEAN, c \in { 5, 8 }, d \in { "auto", "cpu" } }

\* A settings record with each missing key set to its default.
Completed(s, defaults) ==
    [k \in BuilderKeys |-> IF k \in DOMAIN s THEN s[k] ELSE defaults[k]]

\* C17: for a settings record with any keys missing, build_pipeline_options
\* does not fail and, for one default per key, returns what it returns for
\* the same record with each missing key set to that default.
C17_MissingKeysDefaulted ==
    (ret_options # NotCalled /\ DECLARED = OptionalFields)
    => /\ ret_options # Raised
       /\ \E defaults \in DocumentedDefaults :
            ret_options = build_pipeline_options(Completed(arg_settings, defaults))

\* The OCR options variant the engine name stands for ("none": no variant).
EngineVariant(ocr_engine) ==
    CASE ocr_engine = "EasyOCR"                       -> "EasyOcrOptions"
      [] ocr_engine \in { "RapidOCR", "Auto" }        -> "RapidOcrOptions"
      [] ocr_engine = "OcrMac" /\ OCRMAC_AVAILABLE    -> "OcrMacOptions"
      [] OTHER                                        -> "none"

\* The OCR options attached to a returned configuration are those of variant
\* v, built from the record's language and full-page flag (and, for EasyOCR
\* alone, its confidence threshold); "none": nothing is attached.
OcrAttached(v) ==
    LET f == ret_options.fields
        s == arg_settings
    IN  IF v = "none" THEN "ocr_options" \notin DOMAIN f
        ELSE /\ "ocr_options" \in DOMAIN f
             /\ f["ocr_options"].variant = v
             /\ f["ocr_options"].force_full_page_ocr
                  = Get(s, "force_full_page_ocr", TRUE)
             /\ f["ocr_options"].lang
                  = IF v = "OcrMacOptions" THEN Get(s, "ocr_language", "en")
                    ELSE << Get(s, "ocr_language", "en") >>
             /\ ("confidence_threshold" \in DOMAIN f["ocr_options"])
                  <=> (v = "EasyOcrOptions")
             /\ v = "EasyOcrOptions"
                  => f["ocr_options"].confidence_threshold
                       = Get(s, "ocr_confidence", 8)

C19_OnlyDeclaredSet ==
    ret_options # NotCalled
    => /\ ret_options # Raised
       /\ ret_options.kind = "PdfPipelineOptions"
            => \A f \in DOMAIN ret_options.fields :
                 TopField(f) \in OptionalFields => TopField(f) \in DECLARED

\* What build_converter returned for the requested pipeline type.
Requested == Get(arg_settings, "pipeline_type", "Standard")
UsesVLM == Requested = "VLM" /\ VLM_AVAILABLE
UsesASR == Requested = "ASR" /\ ASR_AVAILABLE

\* The label is that of the pipeline used, and the configuration is attached
\* on the Standard path only, to the PDF format only; it is the one
\* build_pipeline_options returns for the same record.
LabelMatchesPipeline ==
    LET b == ret_converter
    IN  /\ b.pipeline_name = "VLM" <=> UsesVLM
        /\ b.pipeline_name = "ASR" <=> (~UsesVLM /\ UsesASR)
        /\ b.pipeline_name = "Standard" <=> (~UsesVLM /\ ~UsesASR)
        /\ b.converter.kind = "DocumentConverter"
        /\ b.pipeline_name = "VLM" => b.converter.pipeline = "VlmPipelineOptions"
        /\ b.pipeline_name = "ASR" => b.converter.pipeline = "AsrPipelineOptions"
        /\ b.pipeline_name \in { "VLM", "ASR" } => b.converter.format_options = {}
        /\ b.pipeline_name = "Standard"
             => /\ b.converter.pipeline = "default"
                /\ { o.format : o \in b.converter.format_options } = { "PDF" }
                /\ Cardinality(b.converter.format_options) = 1
                /\ ret_options # NotCalled
                     => \A o \in b.converter.format_options :
                          o.pipeline_options = ret_options

FormatNames == { "Markdown", "HTML", "JSON", "DocTags", "Text", "PDF", "" }
ExtOf(format_name) ==
    IF format_name = "Markdown" THEN ".md"
    ELSE IF format_name = "HTML" THEN ".html"
    ELSE IF format_name = "JSON" THEN ".json"
    ELSE IF format_name = "DocTags" THEN ".doctags"
    ELSE ".txt"

\* The directory, base name and extension of the j-th file written in the
\* run are those of the claim, and its directory is the one created before
\* the write.
PathShape(j) ==
    LET f == w_files[written[j].i + 1]
        p == written[j].path
    IN  /\ p.dir = w_settings.output_directory
        /\ p.sub = (IF w_settings.create_subfolder THEN f.stem ELSE "")
        /\ p.stem = f.stem
        /\ p.ext = ExtOf(w_settings.output_format)
        /\ written[j].made = [dir |-> p.dir, sub |-> p.sub]

\* C21 as stated: every file written goes to outputDir/baseName.ext, or
\* outputDir/baseName/baseName.ext with create_subfolder, the extension fixed
\* by the format; the directory is created before the write.
C21_PathIsBaseExt ==
    /\ \A name \in FormatNames : get_output_extension(name) = ExtOf(name)
    /\ \A j \in 1..Len(written) :
         /\ PathShape(j)
         /\ written[j].path.stamp = << >>

\* C21 amended: the same directory, base name and extension, where the file
\* name is baseName.ext unless that path exists and overwriting is off, and
\* then baseName_YYYYMMDD_HHMMSS.ext.
C21_PathShape ==
    /\ \A name \in FormatNames : get_output_extension(name) = ExtOf(name)
    /\ \A j \in 1..Len(written) :
         /\ PathShape(j)
         /\ IF written[j].exists /\ ~w_settings.overwrite_files
            THEN IsStamp(written[j].path.stamp)
            ELSE written[j].path.stamp = << >>

\* C21 witness: a file written as out/a/a.json, in the subfolder made for it.
C21_Witness ==
    /\ Len(written) >= 1
    /\ written[1].path = [ dir |-> "out", sub |-> "a", stem |-> "a",
                           stamp |-> << >>, ext |-> ".json" ]
    /\ written[1].made = [ dir |-> "out", sub |-> "a" ]
    /\ successful >= 1

\* C22: the content returned is, by the format name alone: the markdown
\* export for Markdown, the HTML export for HTML, the dumped dict export for
\* JSON, the DocTags export for DocTags when the document has one and the
\* markdown export when it has none, the stripped markdown export for Text,
\* and the markdown export for any other name.
C22_ByFormat ==
    ret_content # NotCalled
    => LET doc == arg_doc
           out == ret_content.value
       IN  CASE arg_format = "Markdown" -> out = doc.markdown
             [] arg_format = "HTML"     -> out = doc.html
             [] arg_format = "JSON"     -> out = json_dumps(doc.dict, 2, FALSE)
             [] arg_format = "DocTags"  ->
                  IF "doctags" \in DOMAIN doc THEN out = doc.doctags
                  ELSE out = doc.markdown
             [] arg_format = "Text"     -> out = strip_markdown(doc.markdown)
             [] OTHER                   -> out = doc.markdown

\* C22 witness: DocTags was asked of a document without a DocTags export and
\* the markdown export, with a link in it, was returned.
C22_Witness ==
    /\ ret_content # NotCalled
    /\ arg_format = "DocTags"
    /\ "doctags" \notin DOMAIN arg_doc
    /\ ret_content.value = << "[", "a", "]", "(", "b", ")" >>

\* The plain text of a sequence of pieces: the title of a heading that
\* starts a line, the text of plain, bold and italic pieces, nothing for an
\* image, the label of a link.  A '# T' inside a line is no heading.
RECURSIVE PlainOf(_, _)
PlainOf(pieces, at_line_start) ==
    IF pieces = << >> THEN << >>
    ELSE LET name == Head(pieces)
             text == CASE name = "heading" ->
                            IF at_line_start THEN << "T" >> ELSE << "#", " ", "T" >>
                       [] name = "newline" -> << "\n" >>
                       [] name = "image"   -> << >>
                       [] name = "link"    -> << "a" >>
                       [] OTHER            -> << "x" >>
         IN  text \o PlainOf(Tail(pieces), name = "newline")

\* C23: for format Text the content returned is the plain text of the
\* document's pieces, and it is what the five substitutions give when applied
\* one after the other: headings, bold, italic, images, links.
C23_PlainText ==
    (ret_content # NotCalled /\ arg_format = "Text")
    => /\ \E pieces \in PieceSeqs :
            /\ MarkdownOf(pieces) = arg_doc.markdown
            /\ ret_content.value = PlainOf(pieces, TRUE)
       /\ ret_content.value =
            sub_links(sub_images(sub_italic(sub_bold(
                sub_headings(arg_doc.markdown, 1), 1), 1), 1), 1)

\* C23 witness: a heading line that holds an image and a link came out as
\* the title and the label.
C23_Witness ==
    /\ ret_content # NotCalled
    /\ arg_format = "Text"
    /\ arg_doc.markdown = MarkdownOf(<< "heading", "image", "link" >>)
    /\ ret_content.value = << "T", "a" >>

\* C24 (step part): a reset_options step leaves the option variables such
\* that get_current_settings returns the record of a freshly initialised
\* application, and changes neither the file list, the run state nor the
\* record handed to the worker; a second reset changes nothing at all.
C24_Step ==
    reset_options
    => /\ get_current_settings' = DefaultOptions
       /\ UNCHANGED << file_list, file_listbox, is_converting, cancel_requested,
                       converter, convert_selected_btn, convert_all_btn,
                       cancel_btn, progress_var, status_label, queue, wVars,
                       histVars >>
       /\ get_current_settings = DefaultOptions => UNCHANGED vars

\* C24: after reset_options, whatever the option variables held, the
\* settings record is that of a fresh application; reset_options is
\* idempotent and touches neither the file list, the run state nor the
\* settings a run in progress was started with.
C24_ResetRestoresDefaults == [][C24_Step]_vars

\* C24 witness: a run started with overwriting switched on is converting,
\* with its own record unchanged, while the option variables are back at
\* their initial values.
C24_Witness ==
    /\ w_pc = "converting"
    /\ is_converting
    /\ w_settings = [ DefaultOptions EXCEPT !.overwrite_files = TRUE ]
    /\ opts = DefaultOptions
    /\ file_list # << >>

\* The settings record of a freshly initialised GUI, as far as the builder
\* reads it.
InitialGUIRecord == [key \in BuilderKeys |-> DefaultOptions[key]]

\* C25: for the initial GUI record with any keys left out (all of them: the
\* empty record), build_pipeline_options returns what it returns for the
\* initial GUI record itself.
C25_DefaultsMatchGUI ==
    ( /\ ret_options # NotCalled
      /\ DECLARED = OptionalFields
      /\ \E missing \in MissingSets :
            arg_settings = Without(InitialGUIRecord, missing) )
    => ret_options = build_pipeline_options(InitialGUIRecord)

\* C26: with overwriting off, no write of a run goes to a path that exists
\* when it is written: not to the computed path when it was found to exist,
\* and not to a path an earlier file of the same run was written to.
C26_NoOverwrite ==
    ~w_settings.overwrite_files
    => \A j \in 1..Len(written) :
         /\ written[j].exists => written[j].path.stamp # << >>
         /\ \A k \in 1..(j - 1) : written[k].path # written[j].path

CancelLine == "Conversion cancelled by user"

\* Where the first line with the given text stands in a sequence of posts.
PosOf(seq, text) == CHOOSE k \in 1..Len(seq) : seq[k].text = text

\* Cancel was clicked, with its button enabled, during the run.
CancelClicked == cancel_pt # NoCancel

\* The run was cancelled: the line is in the log once, before the summary,
\* and at least one file of the run got no conversion call.
CancelTookEffect ==
    /\ Count(run_log, CancelLine) = 1
    /\ Count(run_log, SummaryHead) = 1
    /\ PosOf(run_log, CancelLine) < PosOf(run_log, SummaryHead)
    /\ Len(calls) < Len(w_files)

\* At the first click the worker still had a read of the flag ahead of it:
\* it had not entered the loop, or stood at the head of the loop with a file
\* left, or was converting a file that is not the last.
ReadAhead ==
    \/ cancel_pt.pc = "begin"
    \/ cancel_pt.pc = "check" /\ cancel_pt.done < Len(w_files)
    \/ cancel_pt.pc = "converting" /\ cancel_pt.done + 1 < Len(w_files)

\* C27 as stated: whenever Cancel is clicked while its button is enabled
\* during a run, the ended run has logged "Conversion cancelled by user"
\* before its summary and has left at least one file unprocessed.
C27_CancelAlwaysTakesEffect ==
    (RunOver /\ CancelClicked) => CancelTookEffect

\* C27 amended: a click takes effect exactly when the worker still has a
\* read of the flag ahead of it and reaches it (build_converter does not
\* raise); a click that comes while the last file is being converted, or
\* after the worker has left its loop, changes nothing in that run: every
\* file gets its call and no cancelled line is logged.
C27_CancelWhenReadAhead ==
    (RunOver /\ CancelClicked)
    => IF ReadAhead /\ ~BuildRaised
       THEN CancelTookEffect
       ELSE /\ Count(run_log, CancelLine) = 0
            /\ ~BuildRaised => Len(calls) = Len(w_files)

\* C27 witness: Cancel clicked while the first of two files was being
\* converted; the run ended with the cancelled line before its summary and
\* the second file without a call.
C27_Witness ==
    /\ RunOver /\ CancelClicked
    /\ cancel_pt.pc = "converting" /\ cancel_pt.done = 0
    /\ Len(w_files) = 2 /\ calls = << 0 >>
    /\ CancelTookEffect

\* A run is in progress: it was accepted and conversion_finished has not yet
\* restored the controls.
RunInProgress == w_files # << >> /\ cancel_btn = NORMAL

\* C28: at every moment of a run, once the posted updates are applied, the
\* displayed progress is (files completed in this run) / (files of this
\* run) x 100; it is 0 from the start of every run until the run's first
\* file completes.
C28_ProgressOfCurrentRun ==
    (RunInProgress /\ QueuedProgress = << >>)
    => progress_var.num * Len(w_files) = Processed * 100 * progress_var.den

\* The listbox shows file_list: same length, row i the base name of path i.
RowsMatchList ==
    /\ Len(file_listbox) = Len(file_list)
    /\ \A i \in 1..Len(file_list) : file_listbox[i] = basename(file_list[i])

\* The place of row i among the selected rows, counted from the top.
RankIn(sel, i) == Cardinality({ k \in sel : k <= i })

\* An accepted convert_selected hands the worker one path per selected
\* row, in row order, each the path whose base name that row shows.
C29_Step ==
    \A sel \in Selections :
        (convert_selected(sel) /\ workers' = workers + 1)
        => /\ Len(w_files') = Cardinality(sel)
           /\ \A i \in sel :
                /\ w_files'[RankIn(sel, i)] = file_list[i]
                /\ basename(w_files'[RankIn(sel, i)]) = file_listbox[i]

\* C29: after any sequence of additions, drops, removals with any
\* selection and clears, the listbox and file_list have the same length and
\* the i-th row is the base name of file_list[i]; convert_selected converts
\* exactly the paths of the selected rows.
C29_ListboxInSync == [](RowsMatchList) /\ [][C29_Step]_vars

\* C29 witness: after the first row was removed and another file dropped,
\* the second row alone was selected and its path is being converted.
C29_Witness ==
    /\ Len(file_list) >= 2
    /\ file_list[1] # PathOf(1)
    /\ RowsMatchList
    /\ w_files = << file_list[2] >>
    /\ w_pc = "converting"

\* An accepted start leaves the cancel flag cleared.
C30_Step ==
    (ConvertRequest /\ workers' = workers + 1) => ~cancel_requested'

\* No read of the flag made so far in a run without a click saw it set.
NoStaleRead == ~CancelClicked => \A j \in 1..Len(checks) : ~checks[j].flag

\* C30 as stated: every accepted start resets the cancel flag, no read of a
\* run sees a Cancel of an earlier run, and a run during which Cancel is
\* never clicked receives a conversion call for all N of its files.
C30_AllCallsWithoutCancel ==
    /\ [][C30_Step]_vars
    /\ [](NoStaleRead)
    /\ []((RunOver /\ ~CancelClicked) => Len(calls) = Len(w_files))

\* C30 amended: the same, except that a run whose build_converter raises
\* ends before its loop and makes no conversion call at all.
C30_NoStaleCancel ==
    /\ [][C30_Step]_vars
    /\ [](NoStaleRead)
    /\ []((RunOver /\ ~CancelClicked)
            => Len(calls) = IF BuildRaised THEN 0 ELSE Len(w_files))

\* C30 witness: the "Cancelling..." callback of a click that belonged to the
\* earlier run is still waiting while the next run, in which Cancel was not
\* clicked, is converting the last of its two files.
C30_Witness ==
    /\ ~CancelClicked
    /\ \E k \in 1..Len(queue) : queue[k].text = "Cancelling..."
    /\ w_pc = "converting"
    /\ Len(w_files) = 2 /\ calls = << 0, 1 >>
    /\ ~cancel_requested

====
